---- MODULE Spec2Model ----
(***************************************************************************)
(* Model of garage_worker/bambulab_api.py: the incremental MQTT state      *)
(* accumulator (PrinterStateAccumulator) and the snapshot derivation       *)
(* (PrinterState.from_mqtt_data, AMSState, AMSUnit, FilamentTray).         *)
(*                                                                         *)
(* Python values are tagged records.  A str is a sequence of one-character *)
(* strings, so that parsing (int(), float(), str.replace, the `in` test on *)
(* a str) is computed and not looked up.  A float is held in thousandths.  *)
(* A dict is a function from its keys (TLA+ strings) to values.            *)
(***************************************************************************)
EXTENDS Integers, Sequences, FiniteSets, TLC

\* ------------------------------------------------------------ Python values
PyNone == [t |-> "null"]
PyInt(n) == [t |-> "int", n |-> n]
PyFloat(m) == [t |-> "float", milli |-> m]
PyStr(s) == [t |-> "str", s |-> s]
\* The str whose text is Python's repr of a list or dict v (never parsed here).
PyRepr(v) == [t |-> "repr", of |-> v]
PyList(q) == [t |-> "seq", q |-> q]
PyDict(m) == [t |-> "map", m |-> m]

\* isinstance(v, dict)
IsDict(v) == v.t = "map"

\* The outcome of an expression: a value, or the exception it raises.
Ok(v) == [ok |-> TRUE, val |-> v]
Raise(e) == [ok |-> FALSE, exc |-> e]

\* bool(v): Python truthiness (a timestamp is a non-empty str).
Truthy(v) ==
  CASE v.t = "null" -> FALSE
    [] v.t = "int" -> v.n # 0
    [] v.t = "float" -> v.milli # 0
    [] v.t = "str" -> v.s # <<>>
    [] v.t \in {"repr", "ts"} -> TRUE
    [] v.t = "seq" -> v.q # <<>>
    [] v.t = "map" -> DOMAIN v.m # {}

\* ------------------------------------------------------------ text and numbers
Digits == <<"0", "1", "2", "3", "4", "5", "6", "7", "8", "9">>
IsDigit(c) == \E i \in 1..10 : Digits[i] = c
DigitVal(c) == (CHOOSE i \in 1..10 : Digits[i] = c) - 1
AllDigits(s) == \A i \in 1..Len(s) : IsDigit(s[i])

RECURSIVE DigitsValue(_)
DigitsValue(s) ==
  IF s = <<>> THEN 0
  ELSE 10 * DigitsValue(SubSeq(s, 1, Len(s) - 1)) + DigitVal(s[Len(s)])

RECURSIVE NatChars(_)
NatChars(n) ==
  IF n < 10 THEN <<Digits[n + 1]>>
  ELSE NatChars(n \div 10) \o <<Digits[(n % 10) + 1]>>

IntChars(n) == IF n < 0 THEN <<"-">> \o NatChars(0 - n) ELSE NatChars(n)

HasSign(s) == Len(s) > 0 /\ s[1] \in {"+", "-"}
Unsigned(s) == IF HasSign(s) THEN Tail(s) ELSE s
SignOf(s) == IF Len(s) > 0 /\ s[1] = "-" THEN 0 - 1 ELSE 1

\* int(<str>): an optional sign and one or more decimal digits (the strings
\* of the model carry no blanks or underscores), ValueError otherwise.
ParseInt(s) ==
  LET body == Unsigned(s)
  IN IF Len(body) > 0 /\ AllDigits(body)
     THEN Ok(SignOf(s) * DigitsValue(body))
     ELSE Raise("ValueError")

\* float(<str>) in thousandths: sign, digits, optionally "." and digits
\* (at most three are kept); no exponent, inf or nan in the model's strings.
FloatOfParts(sign, whole, frac) ==
  IF AllDigits(whole) /\ AllDigits(frac) /\ Len(whole) + Len(frac) > 0
  THEN Ok(sign * (1000 * DigitsValue(whole) + DigitsValue(SubSeq(frac \o <<"0", "0", "0">>, 1, 3))))
  ELSE Raise("ValueError")

\* Where the first "." of s stands, or Len(s) + 1.
DotAt(s) ==
  IF \E i \in 1..Len(s) : s[i] = "."
  THEN CHOOSE i \in 1..Len(s) : s[i] = "." /\ \A j \in 1..(i - 1) : s[j] # "."
  ELSE Len(s) + 1

FloatOfBody(sign, body, dot) ==
  FloatOfParts(sign, SubSeq(body, 1, dot - 1), SubSeq(body, dot + 1, Len(body)))

ParseFloat(s) == FloatOfBody(SignOf(s), Unsigned(s), DotAt(Unsigned(s)))

\* Truncation toward zero, as int(<float>) does.
TruncMilli(m) == IF m >= 0 THEN m \div 1000 ELSE 0 - ((0 - m) \div 1000)

RECURSIVE StripZeros(_)
StripZeros(s) ==
  IF Len(s) > 1 /\ s[Len(s)] = "0" THEN StripZeros(SubSeq(s, 1, Len(s) - 1)) ELSE s

\* repr(<float>): "210.5", "0.0", "-1.75".
FloatChars(m) ==
  LET a == IF m < 0 THEN 0 - m ELSE m
      f == a % 1000
      frac == <<Digits[(f \div 100) + 1], Digits[((f \div 10) % 10) + 1], Digits[(f % 10) + 1]>>
  IN (IF m < 0 THEN <<"-">> ELSE <<>>) \o NatChars(a \div 1000) \o <<".">> \o StripZeros(frac)

IntResult(r) == IF r.ok THEN Ok(PyInt(r.val)) ELSE r
FloatResult(r) == IF r.ok THEN Ok(PyFloat(r.val)) ELSE r

\* int(v)
PyIntConv(v) ==
  CASE v.t = "int" -> Ok(v)
    [] v.t = "float" -> Ok(PyInt(TruncMilli(v.milli)))
    [] v.t = "str" -> IntResult(ParseInt(v.s))
    [] v.t = "repr" -> Raise("ValueError")
    [] OTHER -> Raise("TypeError")

\* float(v)
PyFloatConv(v) ==
  CASE v.t = "int" -> Ok(PyFloat(1000 * v.n))
    [] v.t = "float" -> Ok(v)
    [] v.t = "str" -> FloatResult(ParseFloat(v.s))
    [] v.t = "repr" -> Raise("ValueError")
    [] OTHER -> Raise("TypeError")

\* str(v): never raises.
PyStrConv(v) ==
  CASE v.t = "str" -> Ok(v)
    [] v.t = "repr" -> Ok(v)
    [] v.t = "int" -> Ok(PyStr(IntChars(v.n)))
    [] v.t = "float" -> Ok(PyStr(FloatChars(v.milli)))
    [] v.t = "null" -> Ok(PyStr(<<"N", "o", "n", "e">>))
    [] OTHER -> Ok(PyRepr(v))

\* s.replace("dBm", "")
RECURSIVE ReplaceDbm(_)
ReplaceDbm(s) ==
  IF s = <<>> THEN <<>>
  ELSE IF Len(s) >= 3 /\ SubSeq(s, 1, 3) = <<"d", "B", "m">>
       THEN ReplaceDbm(SubSeq(s, 4, Len(s)))
       ELSE <<s[1]>> \o ReplaceDbm(Tail(s))

\* The except clause of _parse_wifi_signal: 0 when int() raised.
IntOrZero(r) == IF r.ok THEN PyInt(r.val) ELSE PyInt(0)

\* PrinterState._parse_wifi_signal: 0 for a falsy value; int() of the text
\* without "dBm"; 0 when that raises ValueError (not a number) or
\* AttributeError (the value has no .replace, i.e. is not a str).
parse_wifi_signal(v) ==
  IF ~Truthy(v) THEN PyInt(0)
  ELSE IF v.t = "str" THEN IntOrZero(ParseInt(ReplaceDbm(v.s)))
  ELSE PyInt(0)

\* ------------------------------------------------------------ dict and list access
\* A .get that ignores the default it is given.
GetOrNone(m, k, default) == IF k \in DOMAIN m THEN m[k] ELSE PyNone

\* d.get(k, default) on the contents m of a dict
Get(m, k, default) == IF k \in DOMAIN m THEN m[k] ELSE default

\* The text of the keys that the code tests with `in`.
KeyChars(k) ==
  CASE k = "print" -> <<"p", "r", "i", "n", "t">>
    [] k = "ams" -> <<"a", "m", "s">>

IsSubstring(w, s) ==
  \E i \in 1..(Len(s) + 1) : i + Len(w) - 1 <= Len(s) /\ SubSeq(s, i, i + Len(w) - 1) = w

\* `k in v`: key test on a dict, element test on a list, substring test on a
\* str, TypeError on a value that is not a container.
PyContains(v, k) ==
  CASE v.t = "map" -> Ok(k \in DOMAIN v.m)
    [] v.t = "seq" -> Ok(\E i \in 1..Len(v.q) : v.q[i] = PyStr(KeyChars(k)))
    [] v.t = "str" -> Ok(IsSubstring(KeyChars(k), v.s))
    [] v.t \in {"int", "float", "null"} -> Raise("TypeError")

\* `v[k]` with a str key: only a dict can be indexed by a str.
PyGetItem(v, k) ==
  CASE v.t = "map" -> (IF k \in DOMAIN v.m THEN Ok(v.m[k]) ELSE Raise("KeyError"))
    [] OTHER -> Raise("TypeError")

\* ------------------------------------------------------------ field derivation
\* One keyword argument of a from_dict / from_mqtt_data constructor call:
\* field f is conv(data.get(k, d)).
Field(f, k, c, d) == [f |-> f, k |-> k, c |-> c, d |-> d]

Conv(c, v) ==
  CASE c = "raw" -> Ok(v)
    [] c = "str" -> PyStrConv(v)
    [] c = "int" -> PyIntConv(v)
    [] c = "float" -> PyFloatConv(v)
    [] c = "wifi" -> Ok(parse_wifi_signal(v))

\* The keyword arguments are evaluated in source order; the first one that
\* raises ends the call.  res[i] is the outcome of the i-th argument.
Construct(table, res) ==
  LET bad == {i \in 1..Len(table) : ~res[i].ok}
      first == CHOOSE i \in bad : \A j \in bad : i <= j
      names == {table[i].f : i \in 1..Len(table)}
  IN IF bad # {} THEN Raise(res[first].exc)
     ELSE Ok([f \in names |-> res[CHOOSE i \in 1..Len(table) : table[i].f = f].val])

FromTable(table, m) ==
  Construct(table, [i \in 1..Len(table) |-> Conv(table[i].c, Get(m, table[i].k, table[i].d))])

\* [F(x) for x in v], given res, the outcome of F on each element when v is
\* a list: a list yields its elements; a non-empty dict or str yields str
\* items, on which from_dict fails (a str has no .get); a value that is not
\* iterable raises TypeError.  The first element that raises ends the loop.
ListComp(v, res) ==
  CASE v.t = "seq" ->
         (LET bad == {i \in 1..Len(v.q) : ~res[i].ok}
              first == CHOOSE i \in bad : \A j \in bad : i <= j
          IN IF bad # {} THEN Raise(res[first].exc)
             ELSE Ok([i \in 1..Len(v.q) |-> res[i].val]))
    [] v.t \in {"map", "str", "repr"} -> (IF Truthy(v) THEN Raise("AttributeError") ELSE Ok(<<>>))
    [] OTHER -> Raise("TypeError")

\* The elements of a list value (none for any other value).
Elements(v) == IF v.t = "seq" THEN v.q ELSE <<>>

EmptyStr == PyStr(<<>>)
EmptyList == PyList(<<>>)
EmptyDict == PyDict(<<>>)

FilamentTrayFields ==
  << Field("tray_id", "id", "str", EmptyStr),
     Field("tray_id_name", "tray_id_name", "raw", EmptyStr),
     Field("tray_type", "tray_type", "raw", EmptyStr),
     Field("tray_sub_brands", "tray_sub_brands", "raw", EmptyStr),
     Field("tray_color", "tray_color", "raw", EmptyStr),
     Field("remain_percent", "remain", "raw", PyInt(0 - 1)),
     Field("tray_weight", "tray_weight", "int", PyInt(0)),
     Field("tray_diameter", "tray_diameter", "float", PyFloat(1750)),
     Field("tray_temp", "tray_temp", "int", PyInt(0)),
     Field("nozzle_temp_min", "nozzle_temp_min", "int", PyInt(0)),
     Field("nozzle_temp_max", "nozzle_temp_max", "int", PyInt(0)),
     Field("state", "state", "raw", PyInt(0)),
     Field("tag_uid", "tag_uid", "raw", EmptyStr),
     Field("tray_uuid", "tray_uuid", "raw", EmptyStr) >>

\* FilamentTray.from_dict
FilamentTray_from_dict(data) ==
  IF ~IsDict(data) THEN Raise("AttributeError") ELSE FromTable(FilamentTrayFields, data.m)

AMSUnitFields ==
  << Field("ams_id", "ams_id", "raw", EmptyStr),
     Field("unit_id", "id", "str", EmptyStr),
     Field("humidity", "humidity", "int", PyInt(0 - 1)),
     Field("humidity_raw", "humidity_raw", "int", PyInt(0 - 1)),
     Field("temp", "temp", "float", PyFloat(0)),
     Field("dry_time", "dry_time", "raw", PyInt(0)) >>

\* A from_dict whose list comprehension runs first: its exception, else the
\* exception of the keyword arguments, else the object with the list.
WithList(list, r, name) ==
  IF ~list.ok THEN list
  ELSE IF ~r.ok THEN r
  ELSE Ok(r.val @@ (name :> list.val))

\* [FilamentTray.from_dict(t) for t in v]
TraysOf(v) ==
  ListComp(v, [i \in 1..Len(Elements(v)) |-> FilamentTray_from_dict(Elements(v)[i])])

\* AMSUnit.from_dict: the trays are built first, then the unit's own fields.
AMSUnit_from_dict(data) ==
  IF ~IsDict(data) THEN Raise("AttributeError")
  ELSE WithList(TraysOf(Get(data.m, "tray", EmptyList)), FromTable(AMSUnitFields, data.m), "trays")

AMSStateFields ==
  << Field("ams_exist_bits", "ams_exist_bits", "raw", EmptyStr),
     Field("tray_exist_bits", "tray_exist_bits", "raw", EmptyStr),
     Field("tray_now", "tray_now", "raw", EmptyStr),
     Field("tray_pre", "tray_pre", "raw", EmptyStr),
     Field("tray_tar", "tray_tar", "raw", EmptyStr),
     Field("ams_status", "ams_status", "raw", PyInt(0)),
     Field("ams_rfid_status", "ams_rfid_status", "raw", PyInt(0)) >>

\* [AMSUnit.from_dict(u) for u in v]
UnitsOf(v) ==
  ListComp(v, [i \in 1..Len(Elements(v)) |-> AMSUnit_from_dict(Elements(v)[i])])

\* AMSState.from_dict
AMSState_from_dict(data) ==
  IF ~IsDict(data) THEN Raise("AttributeError")
  ELSE WithList(UnitsOf(Get(data.m, "ams", EmptyList)), FromTable(AMSStateFields, data.m), "units")

PrinterStateFields ==
  << Field("sequence_id", "sequence_id", "str", EmptyStr),
     Field("nozzle_temp", "nozzle_temper", "float", PyFloat(0)),
     Field("nozzle_target_temp", "nozzle_target_temper", "float", PyFloat(0)),
     Field("bed_temp", "bed_temper", "float", PyFloat(0)),
     Field("bed_target_temp", "bed_target_temper", "float", PyFloat(0)),
     Field("chamber_temp", "chamber_temper", "float", PyFloat(0)),
     Field("gcode_state", "gcode_state", "raw", EmptyStr),
     Field("print_percent", "mc_percent", "int", PyInt(0)),
     Field("remaining_time_min", "mc_remaining_time", "int", PyInt(0)),
     Field("layer_num", "layer_num", "int", PyInt(0)),
     Field("total_layer_num", "total_layer_num", "int", PyInt(0)),
     Field("print_line_number", "mc_print_line_number", "int", PyInt(0)),
     Field("gcode_file", "gcode_file", "raw", EmptyStr),
     Field("subtask_name", "subtask_name", "raw", EmptyStr),
     Field("subtask_id", "subtask_id", "raw", EmptyStr),
     Field("task_id", "task_id", "raw", EmptyStr),
     Field("project_id", "project_id", "raw", EmptyStr),
     Field("profile_id", "profile_id", "raw", EmptyStr),
     Field("print_type", "print_type", "raw", EmptyStr),
     Field("fan_gear", "fan_gear", "int", PyInt(0)),
     Field("cooling_fan_speed", "cooling_fan_speed", "int", PyInt(0)),
     Field("heatbreak_fan_speed", "heatbreak_fan_speed", "int", PyInt(0)),
     Field("wifi_signal", "wifi_signal", "raw", EmptyStr),
     Field("wifi_signal_dbm", "wifi_signal", "wifi", EmptyStr),
     Field("nozzle_diameter", "nozzle_diameter", "float", PyFloat(400)),
     Field("nozzle_type", "nozzle_type", "raw", EmptyStr),
     Field("home_flag", "home_flag", "int", PyInt(0)),
     Field("hw_switch_state", "hw_switch_state", "int", PyInt(0)),
     Field("mc_print_stage", "mc_print_stage", "str", EmptyStr),
     Field("mc_print_sub_stage", "mc_print_sub_stage", "int", PyInt(0)),
     Field("print_error", "print_error", "int", PyInt(0)),
     Field("stg_cur", "stg_cur", "int", PyInt(0)),
     Field("upgrade_state", "upgrade_state", "raw", EmptyDict),
     Field("version", "version", "raw", EmptyDict),
     Field("ipcam", "ipcam", "raw", EmptyDict),
     Field("timelapse", "timelapse", "raw", EmptyDict),
     Field("lights_report", "lights_report", "raw", EmptyList),
     Field("hms", "hms", "raw", EmptyList),
     Field("spd_lvl", "spd_lvl", "int", PyInt(0)),
     Field("spd_mag", "spd_mag", "int", PyInt(0)),
     Field("vt_tray", "vt_tray", "raw", PyNone) >>

\* Lines 370-372: ams is None unless `"ams" in print_data`, and then
\* AMSState.from_dict(print_data["ams"]).
AmsOf(has, item) ==
  IF ~has.ok THEN has
  ELSE IF ~has.val THEN Ok(PyNone)
  ELSE IF ~item.ok THEN item
  ELSE AMSState_from_dict(item.val)

\* Lines 376-442: the PrinterState built from the keyword arguments r, the
\* timestamp and the parsed ams block.
PrinterStateOf(ams, r, ts) ==
  IF ~ams.ok THEN ams
  ELSE IF ~r.ok THEN r
  ELSE Ok(r.val @@ ("timestamp" :> ts) @@ ("ams" :> ams.val))

\* print_data.get(...) on every keyword argument: needs a dict.
PrintFields(print_data) ==
  IF ~IsDict(print_data) THEN Raise("AttributeError")
  ELSE FromTable(PrinterStateFields, print_data.m)

\* PrinterState.from_mqtt_data(data, timestamp), called at clock reading now.
\* data is the contents of the top-level dict.  The ams block is parsed
\* first, then the keyword arguments in source order.  The field _raw_data
\* is a reference to data itself, not a value of its own, and is not part
\* of the derived record.
from_mqtt_data(data, timestamp, now) ==
  LET print_data == Get(data, "print", EmptyDict)
  IN PrinterStateOf(AmsOf(PyContains(print_data, "ams"), PyGetItem(print_data, "ams")),
                    PrintFields(print_data),
                    IF timestamp = PyNone THEN now ELSE timestamp)

\* ------------------------------------------------------------ views of a PrinterState
\* A PrinterState, AMSState, AMSUnit or FilamentTray object is the function
\* from its field names to their values; units and trays are sequences.
PyBool(b) == [t |-> "bool", b |-> b]

sUnknown == PyStr(<<"u", "n", "k", "n", "o", "w", "n">>)
sChamberLight ==
  PyStr(<<"c", "h", "a", "m", "b", "e", "r", "_", "l", "i", "g", "h", "t">>)

\* round(x, 2) of a float held in thousandths: to the nearest hundredth,
\* a tie going to the even hundredth.
Round2(v) ==
  LET m == v.milli
      down == (m \div 10) * 10
      r == m % 10
  IN PyFloat(IF r < 5 THEN down
             ELSE IF r > 5 THEN down + 10
             ELSE IF (m \div 10) % 2 = 0 THEN down ELSE down + 10)

\* PrinterState._get_chamber_light_status on the value of lights_report:
\* the loop ends at the first element that has no .get or whose node is
\* "chamber_light".
ChamberLightAt(v, stops) ==
  IF stops = {} THEN Ok(sUnknown)
  ELSE LET i == CHOOSE j \in stops : \A k \in stops : j <= k
       IN IF ~IsDict(v.q[i]) THEN Raise("AttributeError")
          ELSE Ok(Get(v.q[i].m, "mode", sUnknown))

get_chamber_light_status(v) ==
  CASE v.t = "seq" ->
         ChamberLightAt(v, {i \in 1..Len(v.q) :
                              \/ ~IsDict(v.q[i])
                              \/ Get(v.q[i].m, "node", PyNone) = sChamberLight})
    [] v.t \in {"map", "str", "repr"} ->
         (IF Truthy(v) THEN Raise("AttributeError") ELSE Ok(sUnknown))
    [] OTHER -> Raise("TypeError")

\* v.get(k, d) where v may be any value: only a dict has .get.
GetOf(v, k, d) == IF IsDict(v) THEN Ok(Get(v.m, k, d)) ELSE Raise("AttributeError")

\* A loaded-trays view that keeps every tray.
RECURSIVE all_trays(_)
all_trays(units) ==
  IF units = <<>> THEN <<>>
  ELSE units[1]["trays"] \o all_trays(Tail(units))

\* The inner loop of loaded_trays over one unit's trays.
RECURSIVE LoadedIn(_)
LoadedIn(trays) ==
  IF trays = <<>> THEN <<>>
  ELSE (IF Truthy(trays[1]["tray_type"]) THEN <<trays[1]>> ELSE <<>>) \o LoadedIn(Tail(trays))

\* AMSState.loaded_trays, on the units of the AMS state.
RECURSIVE loaded_trays(_)
loaded_trays(units) ==
  IF units = <<>> THEN <<>>
  ELSE LoadedIn(units[1]["trays"]) \o loaded_trays(Tail(units))

\* AMSState.total_trays, on the units of the AMS state.
RECURSIVE total_trays(_)
total_trays(units) ==
  IF units = <<>> THEN 0
  ELSE Len(units[1]["trays"]) + total_trays(Tail(units))

\* One entry of the snapshot's "filaments" list.
FilamentEntry(tray) ==
  "tray_id" :> tray["tray_id"] @@ "slot" :> tray["tray_id_name"]
  @@ "type" :> tray["tray_type"] @@ "brand" :> tray["tray_sub_brands"]
  @@ "color" :> tray["tray_color"] @@ "remain_percent" :> tray["remain_percent"]
  @@ "tray_diameter" :> tray["tray_diameter"]
  @@ "nozzle_temp_min" :> tray["nozzle_temp_min"]
  @@ "nozzle_temp_max" :> tray["nozzle_temp_max"]

\* Lines 572-587: the same two loops and the same test as loaded_trays.
Filaments(loaded) == [i \in 1..Len(loaded) |-> FilamentEntry(loaded[i])]

\* Lines 517-562: the entries every snapshot has, given the chamber light
\* and the two values read from ipcam.
SnapshotBase(ps, light, record, lapse) ==
  "timestamp" :> ps["timestamp"]
  @@ "nozzle_temp" :> Round2(ps["nozzle_temp"])
  @@ "nozzle_target_temp" :> Round2(ps["nozzle_target_temp"])
  @@ "bed_temp" :> Round2(ps["bed_temp"])
  @@ "bed_target_temp" :> Round2(ps["bed_target_temp"])
  @@ "chamber_temp" :> Round2(ps["chamber_temp"])
  @@ "nozzle_diameter" :> ps["nozzle_diameter"]
  @@ "nozzle_type" :> ps["nozzle_type"]
  @@ "gcode_state" :> ps["gcode_state"]
  @@ "print_type" :> ps["print_type"]
  @@ "print_percent" :> ps["print_percent"]
  @@ "remaining_time_min" :> ps["remaining_time_min"]
  @@ "layer_num" :> ps["layer_num"]
  @@ "total_layer_num" :> ps["total_layer_num"]
  @@ "print_line_number" :> ps["print_line_number"]
  @@ "subtask_name" :> ps["subtask_name"]
  @@ "gcode_file" :> ps["gcode_file"]
  @@ "cooling_fan_speed" :> ps["cooling_fan_speed"]
  @@ "heatbreak_fan_speed" :> ps["heatbreak_fan_speed"]
  @@ "wifi_signal_dbm" :> ps["wifi_signal_dbm"]
  @@ "print_error" :> ps["print_error"]
  @@ "has_errors" :> PyBool(ps["print_error"].n # 0)
  @@ "lights_report" :> ps["lights_report"]
  @@ "chamber_light" :> light
  @@ "ipcam_record" :> record
  @@ "timelapse" :> lapse

\* Lines 565-593: the AMS summary, present when ams is not None.
AmsSummary(ams) ==
  IF ams = PyNone THEN <<>>
  ELSE "ams_unit_count" :> PyInt(Len(ams["units"]))
       @@ "ams_status" :> ams["ams_status"]
       @@ "ams_exist_bits" :> ams["ams_exist_bits"]
       @@ "tray_exist_bits" :> ams["tray_exist_bits"]
       @@ "filaments" :> Filaments(loaded_trays(ams["units"]))
       @@ (IF ams["units"] = <<>> THEN <<>>
           ELSE "ams_humidity" :> ams["units"][1]["humidity"]
                @@ "ams_humidity_raw" :> ams["units"][1]["humidity_raw"]
                @@ "ams_temp" :> ams["units"][1]["temp"])

\* Lines 596-601: the external spool, present when vt_tray is truthy; a
\* truthy vt_tray that is not a dict has no .get.
ExternalSpool(vt) ==
  IF ~Truthy(vt) THEN Ok(<<>>)
  ELSE IF ~IsDict(vt) THEN Raise("AttributeError")
  ELSE Ok("external_spool" :> ("type" :> Get(vt.m, "tray_type", EmptyStr)
                               @@ "color" :> Get(vt.m, "tray_color", EmptyStr)
                               @@ "remain" :> Get(vt.m, "remain", PyInt(0))))

\* The snapshot from its parts, evaluated in source order.
SnapshotOf(ps, light, record, lapse, spool) ==
  IF ~light.ok THEN light
  ELSE IF ~record.ok THEN record
  ELSE IF ~lapse.ok THEN lapse
  ELSE IF ~spool.ok THEN spool
  ELSE Ok(SnapshotBase(ps, light.val, record.val, lapse.val)
          @@ AmsSummary(ps["ams"]) @@ spool.val)

\* PrinterState.get_snapshot()
PrinterState_get_snapshot(ps) ==
  SnapshotOf(ps, get_chamber_light_status(ps["lights_report"]),
             GetOf(ps["ipcam"], "ipcam_record", EmptyStr),
             GetOf(ps["ipcam"], "timelapse", EmptyStr),
             ExternalSpool(ps["vt_tray"]))

\* FilamentTray.to_dict(), AMSUnit.to_dict(), AMSState.to_dict()
TrayKeys ==
  {"tray_id", "tray_id_name", "tray_type", "tray_sub_brands", "tray_color",
   "remain_percent", "tray_weight", "tray_diameter", "tray_temp", "nozzle_temp_min",
   "nozzle_temp_max", "state", "tag_uid", "tray_uuid"}
FilamentTray_to_dict(tray) == [k \in TrayKeys |-> tray[k]]

UnitKeys == {"ams_id", "unit_id", "humidity", "humidity_raw", "temp", "dry_time"}
AMSUnit_to_dict(unit) ==
  [k \in UnitKeys |-> unit[k]]
  @@ "trays" :> [i \in 1..Len(unit["trays"]) |-> FilamentTray_to_dict(unit["trays"][i])]

AmsKeys ==
  {"ams_exist_bits", "tray_exist_bits", "tray_now", "tray_pre", "tray_tar",
   "ams_status", "ams_rfid_status"}
AMSState_to_dict(ams) ==
  [k \in AmsKeys |-> ams[k]]
  @@ "units" :> [i \in 1..Len(ams["units"]) |-> AMSUnit_to_dict(ams["units"][i])]

\* PrinterState.to_dict(): every field but vt_tray and _raw_data; ams is
\* `self.ams.to_dict() if self.ams else None`.
ToDictKeys ==
  {"timestamp", "sequence_id", "nozzle_temp", "nozzle_target_temp", "bed_temp",
   "bed_target_temp", "chamber_temp", "gcode_state", "print_percent",
   "remaining_time_min", "layer_num", "total_layer_num", "print_line_number",
   "gcode_file", "subtask_name", "subtask_id", "task_id", "project_id", "profile_id",
   "print_type", "fan_gear", "cooling_fan_speed", "heatbreak_fan_speed", "wifi_signal",
   "wifi_signal_dbm", "nozzle_diameter", "nozzle_type", "home_flag", "hw_switch_state",
   "mc_print_stage", "mc_print_sub_stage", "print_error", "stg_cur", "spd_lvl",
   "spd_mag", "upgrade_state", "version", "ipcam", "timelapse", "lights_report", "hms"}
PrinterState_to_dict(ps) ==
  [k \in ToDictKeys |-> ps[k]]
  @@ "ams" :> (IF ps["ams"] = PyNone THEN PyNone ELSE AMSState_to_dict(ps["ams"]))

\* BambuPrinter.get_snapshot: get_state() and then get_snapshot() on it.
SnapshotOfState(res) == IF ~res.ok THEN res ELSE PrinterState_get_snapshot(res.val)

\* ------------------------------------------------------------ the accumulator
VARIABLES
  state_data,    \* PrinterStateAccumulator._state_data (contents of the dict)
  last_update,   \* PrinterStateAccumulator._last_update
  update_count,  \* PrinterStateAccumulator._update_count
  clock,         \* the wall clock that datetime.now() reads
  last,          \* the last call: its name, argument, exception and return value,
                 \* the clock reading and update count it started from, and
                 \* the same two facts about the call before it
  applies,       \* history: update() calls since reset that merged a mapping
  latest,        \* history: path -> most recent value received at that path
  last_seen,     \* history: key under "print" -> value in the last update holding it
  creds,         \* BambuPrinter: username and password are both set
  token,         \* BambuPrinter._token: "none", "given" or "fresh"
  connected,     \* BambuPrinter._connected
  link,          \* BambuPrinter._mqtt: "none", or the client is "up" or "down"
  attempts,      \* connection attempts made by the last connect() call
  inflight,      \* the transport thread's position in _on_mqtt_message
  session_msgs,  \* history: messages merged since the last successful connect()
  api,           \* AlphaESSAPI: app_id and app_secret
  sent,          \* the last outbound AlphaESS request: url, params and headers
  on_update,     \* BambuPrinter._on_update: a callback is installed
  tapo,          \* TapoSampler: _client, _device, _connected
  held,          \* a PrinterState that a caller kept: its fields when it was
                 \* returned, and the contents now of the dict it holds as _raw_data
  given          \* an update document that a caller kept: its contents when it
                 \* was passed to update() and now, and the keys under "print"
                 \* whose dict the accumulator stored by reference

printer_vars == <<creds, token, connected, link, attempts, inflight, session_msgs, on_update>>
alpha_vars == <<api, sent>>
tapo_vars == <<tapo>>
alias_vars == <<held, given>>
\* What a call on the accumulator cannot reach, and what no call but
\* update(), reset() or a write through a shared dict can change.
apart == <<printer_vars, alpha_vars, tapo_vars>>
others == <<apart, alias_vars>>

vars == <<state_data, last_update, update_count, clock, last, applies, latest, last_seen,
          printer_vars, alpha_vars, tapo_vars, alias_vars>>

\* Most update() calls since a reset, and the last clock reading.
MaxUpdates == 2
MaxClock == 1

\* datetime.now(...).isoformat() at clock reading n: a non-empty str.
Timestamp(n) == [t |-> "ts", at |-> n]

\* A merge that is a plain base.update(update): no recursion into dicts.
deep_merge_shallow(base, update) ==
  [key \in DOMAIN base \cup DOMAIN update |->
     IF key \in DOMAIN update THEN update[key] ELSE base[key]]

\* A merge that also merges lists, by appending the new elements.
RECURSIVE deep_merge_extend(_, _)
deep_merge_extend(base, update) ==
  [key \in DOMAIN base \cup DOMAIN update |->
     IF key \notin DOMAIN update THEN base[key]
     ELSE IF key \in DOMAIN base /\ IsDict(base[key]) /\ IsDict(update[key])
          THEN PyDict(deep_merge_extend(base[key].m, update[key].m))
          ELSE IF key \in DOMAIN base /\ base[key].t = "seq" /\ update[key].t = "seq"
               THEN PyList(base[key].q \o update[key].q)
               ELSE update[key]]

\* PrinterStateAccumulator._deep_merge(base, update) on the contents of two
\* dicts: the contents of base after the call.
RECURSIVE deep_merge(_, _)
deep_merge(base, update) ==
  [key \in DOMAIN base \cup DOMAIN update |->
     IF key \notin DOMAIN update THEN base[key]
     ELSE IF key \in DOMAIN base /\ IsDict(base[key]) /\ IsDict(update[key])
          THEN PyDict(deep_merge(base[key].m, update[key].m))
          ELSE update[key]]

\* ---- what a caller sees through the references it kept
\* from_mqtt_data stores the dict it is given as _raw_data (line 441), and
\* update() and get_state() give it self._state_data (lines 667, 680): the
\* _raw_data of a PrinterState kept by a caller is the document, until
\* reset() binds self._state_data to a new dict (line 684).
HeldAfterWrite(sd) ==
  IF held # PyNone /\ held.live THEN [held EXCEPT !.raw = sd] ELSE held
HeldAfterReset ==
  IF held # PyNone THEN [held EXCEPT !.live = FALSE] ELSE held

\* Line 675, `base[key] = value`: the keys of an update whose dict the
\* document holds after the merge, stored as the caller's own object.
StoredByReference(base, update) ==
  {key \in DOMAIN update :
     IsDict(update[key]) /\ ~(key \in DOMAIN base /\ IsDict(base[key]))}

\* Merging update into base, with merged the contents of base afterwards.
\* Line 673 merges in place into base[key]: where that dict is the kept
\* document's own, the kept document changes with it.  Line 675 puts
\* another object in the slot, and the kept document's dict is out.
GivenAfterMerge(base, update, merged) ==
  IF given = PyNone THEN given
  ELSE LET inplace == {key \in given.keys \cap DOMAIN update :
                         key \in DOMAIN base /\ IsDict(base[key]) /\ IsDict(update[key])}
       IN [doc |-> given.doc,
           keys |-> given.keys \ ((DOMAIN update) \ inplace),
           now |-> PyDict([given.now.m EXCEPT !["print"] =
                     PyDict([key \in DOMAIN @.m |->
                               IF key \in inplace THEN merged[key] ELSE @.m[key]])])]
\* reset() drops the dict under "print" with everything stored in it.
GivenAfterReset ==
  IF given = PyNone THEN given ELSE [given EXCEPT !.keys = {}]

\* A merge step that assigns data["print"] in place of merging into it.
MergeStepReplace(sd, data) ==
  LET has == PyContains(data, "print")
      item == PyGetItem(data, "print")
  IN IF ~has.ok THEN [sd |-> sd, exc |-> has.exc]
     ELSE IF ~has.val THEN [sd |-> sd, exc |-> "none"]
     ELSE IF ~item.ok THEN [sd |-> sd, exc |-> item.exc]
     ELSE IF ~IsDict(item.val) THEN [sd |-> sd, exc |-> "AttributeError"]
     ELSE [sd |-> [sd EXCEPT !["print"] = item.val], exc |-> "none"]

\* Lines 664-665 of update(): `"print" in data`, data["print"] and the call
\* of _deep_merge, whose `update.items()` needs a dict.  Yields the document
\* afterwards and the exception raised, if any.
MergeStep(sd, data) ==
  LET has == PyContains(data, "print")
      item == PyGetItem(data, "print")
  IN IF ~has.ok THEN [sd |-> sd, exc |-> has.exc]
     ELSE IF ~has.val THEN [sd |-> sd, exc |-> "none"]
     ELSE IF ~item.ok THEN [sd |-> sd, exc |-> item.exc]
     ELSE IF ~IsDict(item.val) THEN [sd |-> sd, exc |-> "AttributeError"]
     ELSE [sd |-> [sd EXCEPT !["print"] = PyDict(deep_merge(sd["print"].m, item.val.m))],
           exc |-> "none"]

InitStateData == "print" :> EmptyDict

\* ---- history variables (not program state)
MapNode == [t |-> "mapnode"]
Mark(v) == IF IsDict(v) THEN MapNode ELSE v

RECURSIVE Nodes(_)
Nodes(m) ==
  UNION {{<<k>>} \cup (IF IsDict(m[k]) THEN {<<k>> \o p : p \in Nodes(m[k].m)} ELSE {})
         : k \in DOMAIN m}

RECURSIVE At(_, _)
At(m, p) == IF Len(p) = 1 THEN m[p[1]] ELSE At(m[p[1]].m, Tail(p))

Flat(m) == [p \in Nodes(m) |-> Mark(At(m, p))]

\* The path map after a mapping m was received: every path of m holds m's
\* value; an older path survives unless m put a non-mapping above it.
LatestAfter(old, m) ==
  LET new == Nodes(m)
      cut(p) == \E n \in 1..(Len(p) - 1) :
                  SubSeq(p, 1, n) \in new /\ ~IsDict(At(m, SubSeq(p, 1, n)))
      kept == {p \in DOMAIN old : p \notin new /\ ~cut(p)}
  IN [p \in new \cup kept |-> IF p \in new THEN Mark(At(m, p)) ELSE old[p]]

RECURSIVE Rebuild(_, _)
Rebuild(flat, p) ==
  IF flat[p] = MapNode
  THEN PyDict([k \in {q[Len(p) + 1] : q \in {r \in DOMAIN flat :
                       Len(r) = Len(p) + 1 /\ SubSeq(r, 1, Len(p)) = p}}
               |-> Rebuild(flat, p \o <<k>>)])
  ELSE flat[p]

SeenAfter(old, data) ==
  IF IsDict(data) /\ "print" \in DOMAIN data.m /\ IsDict(data.m["print"])
  THEN LET pr == data.m["print"].m
       IN [k \in DOMAIN old \cup DOMAIN pr |-> IF k \in DOMAIN pr THEN pr[k] ELSE old[k]]
  ELSE old

\* ---- the update documents offered to update()
sRUNNING == PyStr(<<"R", "U", "N", "N", "I", "N", "G">>)
sScalar == PyStr(<<"s", "c", "a", "l", "a", "r">>)
sHot == PyStr(<<"h", "o", "t">>)
sPrint == PyStr(<<"p", "r", "i", "n", "t">>)
sPLA == PyStr(<<"P", "L", "A">>)

TrayLoaded == PyDict("id" :> PyStr(<<"0">>) @@ "tray_type" :> sPLA @@ "remain" :> PyInt(80)
                     @@ "nozzle_temp_min" :> PyStr(<<"1", "9", "0">>))
TrayEmpty == PyDict("id" :> PyStr(<<"1">>))
Unit0 == PyDict("id" :> PyStr(<<"0">>) @@ "humidity" :> PyStr(<<"4">>)
                @@ "temp" :> PyStr(<<"2", "5", ".", "5">>)
                @@ "tray" :> PyList(<<TrayLoaded, TrayEmpty>>))

DocTemp == PyDict("print" :> PyDict("nozzle_temper" :> PyFloat(210500) @@ "gcode_state" :> sRUNNING))
DocPercent == PyDict("print" :> PyDict("mc_percent" :> PyInt(42)))
DocAX == PyDict("print" :> PyDict("a" :> PyDict("x" :> PyInt(1))
                                  @@ "list" :> PyList(<<PyInt(1), PyInt(2), PyInt(3)>>)))
DocAY == PyDict("print" :> PyDict("a" :> PyDict("y" :> PyInt(2)) @@ "list" :> PyList(<<PyInt(9)>>)))
DocAScalar == PyDict("print" :> PyDict("a" :> sScalar))
DocOther == PyDict("a" :> PyDict("x" :> PyInt(1)) @@ "list" :> PyList(<<PyInt(9)>>))
DocAms == PyDict("print" :> PyDict("ams" :> PyDict("ams" :> PyList(<<Unit0>>)
                                                   @@ "tray_now" :> PyStr(<<"0">>))))
DocTrayNow == PyDict("print" :> PyDict("ams" :> PyDict("tray_now" :> PyStr(<<"1">>))))
DocUnits == PyDict("print" :> PyDict("ams" :> PyDict("ams" :> PyList(<<PyDict("id" :> PyStr(<<"1">>)
                                       @@ "tray" :> PyList(<<TrayEmpty>>))>>))))
DocWifi == PyDict("print" :> PyDict("wifi_signal" :> PyStr(<<"-", "3", "4", "d", "B", "m">>)
                                    @@ "mc_percent" :> PyFloat(57900)))
DocEmpty == PyDict(<<>>)
DocPrintScalar == PyDict("print" :> sScalar)
DocPrintList == PyDict("print" :> PyList(<<PyInt(1), PyInt(2), PyInt(3)>>))
DocHot == PyDict("print" :> PyDict("nozzle_temper" :> sHot))
DocTempMap == PyDict("print" :> PyDict("nozzle_temper" :> PyDict("x" :> PyInt(1))))

MappingUpdates ==
  {DocTemp, DocPercent, DocAX, DocAY, DocAScalar, DocOther, DocAms, DocTrayNow, DocUnits,
   DocWifi, DocEmpty, DocPrintScalar, DocPrintList, DocHot, DocTempMap}

\* Arguments that are not a mapping: a list, two strs (one holds the text
\* "print"), a number and None.
NonMappingUpdates ==
  {PyList(<<PyInt(1), PyInt(2), PyInt(3)>>), sScalar, sPrint, PyInt(42), PyNone}

Updates == MappingUpdates \cup NonMappingUpdates

\* No BambuPrinter and no AlphaESS client take part.
NoPrinter ==
  /\ creds = [username |-> FALSE, password |-> FALSE]
  /\ token = "none"
  /\ connected = FALSE
  /\ link = "none"
  /\ attempts = 0
  /\ inflight = [pc |-> "idle"]
  /\ session_msgs = 0
  /\ on_update = FALSE
NoApi ==
  /\ api = PyNone
  /\ sent = PyNone
\* TapoSampler.__init__
NewSampler ==
  /\ tapo = [client |-> PyNone, device |-> PyNone, connected |-> FALSE]
\* No caller has kept a PrinterState or an update document.
NothingKept ==
  /\ held = PyNone
  /\ given = PyNone

\* PrinterStateAccumulator.__init__
NewAccumulator ==
  /\ state_data = InitStateData
  /\ last_update = PyNone
  /\ update_count = 0
  /\ clock = 0
  /\ last = [op |-> "init", arg |-> PyNone, exc |-> "none", ret |-> PyNone,
             at |-> 0, before |-> 0, prev |-> [op |-> "init", before |-> 0]]
  /\ applies = 0
  /\ latest = <<>>
  /\ last_seen = <<>>

Init ==
  /\ NoPrinter
  /\ NoApi
  /\ NewSampler
  /\ NothingKept
  /\ NewAccumulator

\* What `last` keeps of the call before the current one.
Earlier == [op |-> last.op, before |-> last.before]

\* What a call raised: the merge step's exception, else the derivation's.
Raised(step, res) ==
  IF step.exc # "none" THEN step.exc ELSE IF res.ok THEN "none" ELSE res.exc

\* What a call returned: the derived PrinterState, or nothing when it raised.
Returned(exc, res) == IF exc = "none" THEN res.val ELSE PyNone

\* The merge step merged the dict data["print"] into the document.
Merges(data, step) ==
  /\ IsDict(data) /\ step.exc = "none"
  /\ "print" \in DOMAIN data.m /\ IsDict(data.m["print"])
  /\ IsDict(state_data["print"]) /\ IsDict(step.sd["print"])

\* The effect of update(data) given its merge step and its derivation.
UpdateEffect(data, timestamp, step, res) ==
  /\ last_update' = timestamp
  /\ update_count' = update_count + 1
  /\ state_data' = step.sd
  /\ last' = [op |-> "update", arg |-> data, exc |-> Raised(step, res),
              ret |-> Returned(Raised(step, res), res),
              at |-> clock, before |-> update_count, prev |-> Earlier,
              stored |-> IF Merges(data, step)
                         THEN StoredByReference(state_data["print"].m, data.m["print"].m)
                         ELSE {}]
  /\ held' = HeldAfterWrite(step.sd)
  /\ given' = IF Merges(data, step)
              THEN GivenAfterMerge(state_data["print"].m, data.m["print"].m,
                                   step.sd["print"].m)
              ELSE given
  /\ applies' = IF IsDict(data) /\ step.exc = "none" THEN applies + 1 ELSE applies
  /\ latest' = IF IsDict(data) /\ step.exc = "none" THEN LatestAfter(latest, data.m) ELSE latest
  /\ last_seen' = IF IsDict(data) /\ step.exc = "none" THEN SeenAfter(last_seen, data) ELSE last_seen
  /\ UNCHANGED clock
  /\ UNCHANGED apart

\* An update() that derives its result from the message alone, not from
\* the accumulated document.
update_from_message(data) ==
  /\ update_count < MaxUpdates
  /\ UpdateEffect(data, Timestamp(clock), MergeStep(state_data, data),
                  from_mqtt_data(IF IsDict(data) THEN data.m ELSE <<>>,
                                 Timestamp(clock), Timestamp(clock)))

\* PrinterStateAccumulator.update(data): the timestamp and the counter are
\* written first, then the merge step, then the derivation of the result
\* from the document as the merge step left it.
update(data) ==
  /\ update_count < MaxUpdates
  /\ UpdateEffect(data, Timestamp(clock), MergeStep(state_data, data),
                  from_mqtt_data(MergeStep(state_data, data).sd, Timestamp(clock), Timestamp(clock)))

\* A get_state() that records the time of the call as the last update.
get_state_stamping ==
  /\ last' = [op |-> "get_state", arg |-> PyNone, exc |-> "none", ret |-> PyNone,
              at |-> clock, before |-> update_count, prev |-> Earlier]
  /\ last_update' = Timestamp(clock)
  /\ UNCHANGED <<state_data, update_count, clock, applies, latest, last_seen>>
  /\ UNCHANGED others

\* The record of a get_state() call whose derivation came out as res.
GetStateCall(res) ==
  [op |-> "get_state", arg |-> PyNone, exc |-> IF res.ok THEN "none" ELSE res.exc,
   ret |-> IF res.ok THEN res.val ELSE PyNone,
   at |-> clock, before |-> update_count, prev |-> Earlier]

\* A get_state() that always stamps the snapshot with the time of the call.
get_state_now ==
  /\ last' = GetStateCall(from_mqtt_data(state_data, Timestamp(clock), Timestamp(clock)))
  /\ UNCHANGED <<state_data, last_update, update_count, clock, applies, latest, last_seen>>
  /\ UNCHANGED others

\* PrinterStateAccumulator.get_state(): the timestamp is
\* `self._last_update or datetime.now(...)`.
get_state ==
  /\ last' = GetStateCall(from_mqtt_data(state_data,
                            IF Truthy(last_update) THEN last_update ELSE Timestamp(clock),
                            Timestamp(clock)))
  /\ UNCHANGED <<state_data, last_update, update_count, clock, applies, latest, last_seen>>
  /\ UNCHANGED others

\* The record of a get_snapshot() call that came out as res.
GetSnapshotCall(res) ==
  [op |-> "get_snapshot", arg |-> PyNone, exc |-> IF res.ok THEN "none" ELSE res.exc,
   ret |-> IF res.ok THEN res.val ELSE PyNone,
   at |-> clock, before |-> update_count, prev |-> Earlier]

\* BambuPrinter.get_snapshot(): self._accumulator.get_state().get_snapshot()
get_snapshot ==
  /\ last' = GetSnapshotCall(SnapshotOfState(from_mqtt_data(state_data,
                                IF Truthy(last_update) THEN last_update ELSE Timestamp(clock),
                                Timestamp(clock))))
  /\ UNCHANGED <<state_data, last_update, update_count, clock, applies, latest, last_seen>>
  /\ UNCHANGED others

\* The caller holds the PrinterState that the last call returned.
HoldsState == last.op \in {"update", "get_state"} /\ last.exc = "none"

\* The record of a call made on the PrinterState that the caller holds,
\* which is kept as the call's argument.
ViewCall(op, ret) ==
  [op |-> op, arg |-> last.ret, exc |-> "none", ret |-> ret,
   at |-> clock, before |-> update_count, prev |-> Earlier]

\* state.to_dict() on the PrinterState last returned.
to_dict ==
  /\ HoldsState
  /\ last' = ViewCall("to_dict", PrinterState_to_dict(last.ret))
  /\ UNCHANGED <<state_data, last_update, update_count, clock, applies, latest, last_seen>>
  /\ UNCHANGED others

\* state.ams.loaded_trays on the PrinterState last returned.
get_loaded_trays ==
  /\ HoldsState
  /\ last.ret["ams"] # PyNone
  /\ last' = ViewCall("loaded_trays", loaded_trays(last.ret["ams"]["units"]))
  /\ UNCHANGED <<state_data, last_update, update_count, clock, applies, latest, last_seen>>
  /\ UNCHANGED others

\* state.ams.total_trays on the PrinterState last returned.
get_total_trays ==
  /\ HoldsState
  /\ last.ret["ams"] # PyNone
  /\ last' = ViewCall("total_trays", PyInt(total_trays(last.ret["ams"]["units"])))
  /\ UNCHANGED <<state_data, last_update, update_count, clock, applies, latest, last_seen>>
  /\ UNCHANGED others

\* The caller writes through the PrinterState last returned:
\* `state._raw_data["print"][k] = v`.  _raw_data is the dict that
\* from_mqtt_data was given (line 441), and get_state()/update() give it
\* self._state_data itself (lines 667, 680).
consumer_writes(k, v) ==
  /\ HoldsState
  /\ IsDict(state_data["print"])
  /\ state_data' = [state_data EXCEPT !["print"] = PyDict((k :> v) @@ state_data["print"].m)]
  /\ last' = [op |-> "consumer_writes", arg |-> v, exc |-> "none", ret |-> PyNone,
              at |-> clock, before |-> update_count, prev |-> Earlier]
  /\ held' = HeldAfterWrite(state_data')
  /\ given' = IF given = PyNone THEN given ELSE [given EXCEPT !.keys = @ \ {k}]
  /\ UNCHANGED <<last_update, update_count, clock, applies, latest, last_seen>>
  /\ UNCHANGED apart

\* A reset() that forgets to replace the document.
reset_keeps_document ==
  /\ last_update' = PyNone
  /\ update_count' = 0
  /\ last' = [op |-> "reset", arg |-> PyNone, exc |-> "none", ret |-> PyNone,
              at |-> clock, before |-> update_count, prev |-> Earlier]
  /\ applies' = 0
  /\ latest' = <<>>
  /\ last_seen' = <<>>
  /\ UNCHANGED <<state_data, clock>>
  /\ UNCHANGED others

\* PrinterStateAccumulator.reset()
reset ==
  /\ state_data' = InitStateData
  /\ last_update' = PyNone
  /\ update_count' = 0
  /\ last' = [op |-> "reset", arg |-> PyNone, exc |-> "none", ret |-> PyNone,
              at |-> clock, before |-> update_count, prev |-> Earlier]
  /\ applies' = 0
  /\ latest' = <<>>
  /\ last_seen' = <<>>
  /\ held' = HeldAfterReset
  /\ given' = GivenAfterReset
  /\ UNCHANGED clock
  /\ UNCHANGED apart

\* Time passes between calls.
Tick ==
  /\ clock < MaxClock
  /\ clock' = clock + 1
  /\ UNCHANGED <<state_data, last_update, update_count, last, applies, latest, last_seen>>
  /\ UNCHANGED others

Next ==
  \/ \E data \in Updates : update(data)
  \/ get_state
  \/ reset
  \/ Tick

Spec == Init /\ [][Next]_vars

\* ---- the accumulator with the views of the states it returns
sOn == PyStr(<<"o", "n">>)
sEnable == PyStr(<<"e", "n", "a", "b", "l", "e">>)
sHacked == PyStr(<<"H", "A", "C", "K", "E", "D">>)

\* Lights, camera and external spool; the nozzle temperature has a third
\* decimal.
DocPanel ==
  PyDict("print" :> PyDict(
    "lights_report" :> PyList(<<PyDict("node" :> PyStr(<<"w", "o", "r", "k">>) @@ "mode" :> PyStr(<<"o", "f", "f">>)),
                                PyDict("node" :> sChamberLight @@ "mode" :> sOn)>>)
    @@ "ipcam" :> PyDict("ipcam_record" :> sEnable)
    @@ "vt_tray" :> PyDict("tray_type" :> sPLA @@ "remain" :> PyInt(50))
    @@ "nozzle_temper" :> PyFloat(210506)
    @@ "print_error" :> PyInt(5)))
\* ipcam is text: get_state() accepts it, get_snapshot() has no .get on it.
DocIpcamText == PyDict("print" :> PyDict("ipcam" :> sScalar))

\* Two AMS units, with loaded and empty trays in both.
TrayPETG == PyDict("id" :> PyStr(<<"2">>) @@ "tray_type" :> PyStr(<<"P", "E", "T", "G">>))
DocTwoUnits ==
  PyDict("print" :> PyDict("ams" :> PyDict("ams" :> PyList(
    <<PyDict("id" :> PyStr(<<"0">>) @@ "tray" :> PyList(<<TrayEmpty, TrayLoaded>>)),
      PyDict("id" :> PyStr(<<"1">>) @@ "tray" :> PyList(<<TrayPETG, TrayEmpty, TrayLoaded>>))>>))))

ViewUpdates == {DocAms, DocTwoUnits, DocPanel, DocIpcamText}

ViewNext ==
  \/ \E data \in ViewUpdates : update(data)
  \/ get_state
  \/ get_snapshot
  \/ to_dict
  \/ get_loaded_trays
  \/ get_total_trays
  \/ reset
  \/ Tick

ViewSpec == Init /\ [][ViewNext]_vars

\* ---- the accumulator with a caller that writes into what it was returned
ConsumerNext ==
  \/ \E data \in ViewUpdates \cup {DocTemp} : update(data)
  \/ get_state
  \/ consumer_writes("gcode_state", sHacked)
  \/ reset
  \/ Tick

ConsumerSpec == Init /\ [][ConsumerNext]_vars

\* ---- callers that keep what they got or gave
\* A caller keeps the PrinterState that the last update() or get_state()
\* returned; its _raw_data is self._state_data (lines 441, 667, 680).
keeps_state ==
  /\ held = PyNone
  /\ last.op \in {"update", "get_state"}
  /\ last.exc = "none"
  /\ held' = [ret |-> last.ret, was |-> state_data, raw |-> state_data, live |-> TRUE]
  /\ UNCHANGED <<state_data, last_update, update_count, clock, last, applies, latest,
                 last_seen, apart, given>>

\* A caller keeps the document that it passed to the last update(), some of
\* whose dicts the accumulator stored by reference (line 675).
keeps_document ==
  /\ given = PyNone
  /\ last.op = "update"
  /\ last.exc = "none"
  /\ last.stored # {}
  /\ given' = [doc |-> last.arg, now |-> last.arg, keys |-> last.stored]
  /\ UNCHANGED <<state_data, last_update, update_count, clock, last, applies, latest,
                 last_seen, apart, held>>

AliasUpdates == {DocAX, DocAY, DocTemp}

AliasNext ==
  \/ \E data \in AliasUpdates : update(data)
  \/ get_state
  \/ reset
  \/ keeps_state
  \/ keeps_document
  \/ Tick

AliasSpec == Init /\ [][AliasNext]_vars

\* ------------------------------------------------------------ BambuPrinter
\* str.lower() on the letters that the error messages below use.
UpperCase == <<"A", "C", "F", "H", "N", "T", "U">>
LowerCase == <<"a", "c", "f", "h", "n", "t", "u">>
LowerChar(c) ==
  IF \E i \in 1..Len(UpperCase) : UpperCase[i] = c
  THEN LowerCase[CHOOSE i \in 1..Len(UpperCase) : UpperCase[i] = c]
  ELSE c
Lower(text) == [i \in 1..Len(text) |-> LowerChar(text[i])]

\* Line 945: the words that make an error an authentication error.
AuthWords ==
  {<<"4", "0", "1">>,
   <<"u", "n", "a", "u", "t", "h", "o", "r", "i", "z", "e", "d">>,
   <<"t", "o", "k", "e", "n">>,
   <<"a", "u", "t", "h">>,
   <<"e", "x", "p", "i", "r", "e", "d">>}
is_auth_error(msg) ==
  LET error_msg == Lower(msg)
  IN \E w \in AuthWords : IsSubstring(w, error_msg)

\* What the try block of connect() can end with: success, or an exception
\* with this text.
msgAuth == <<"A", "U", "T", "H", " ", "f", "a", "i", "l", "e", "d">>
msgRefused == <<"C", "o", "n", "n", "e", "c", "t", "i", "o", "n", " ",
                "r", "e", "f", "u", "s", "e", "d">>
AttemptOutcomes == {Ok(PyNone), Raise(msgAuth), Raise(msgRefused)}

\* The longest run of attempt outcomes offered to one connect() call.
MaxOutcomes == 3

\* The result of a connect() call: the token it leaves, the attempts it
\* made, whether it connected, the exception it raised ("none" if it
\* returned), and the login outcomes it did not use.
ConnectResult(tok, made, up, exc, left) ==
  [token |-> tok, attempts |-> made, up |-> up, exc |-> exc, left |-> left]


\* The login outcomes left after one more login.
Tail0(fresh) == IF fresh = <<>> THEN fresh ELSE Tail(fresh)

RECURSIVE ConnectFrom(_, _, _, _, _)
RECURSIVE ConnectTry(_, _, _, _, _)

\* A try block whose handler retries with retry_on_auth_error unchanged.
ConnectTryAgain(tok, retry, outs, fresh, made) ==
  IF made >= Len(outs) THEN ConnectResult(tok, made, FALSE, "Exception", fresh)
  ELSE IF outs[made + 1].ok THEN ConnectResult(tok, made + 1, TRUE, "none", fresh)
  ELSE IF is_auth_error(outs[made + 1].exc) /\ retry /\ creds.username /\ creds.password
       THEN (IF fresh = <<>> \/ ~Head(fresh)
             THEN ConnectResult("none", made + 1, FALSE, "LoginError", Tail0(fresh))
             ELSE ConnectFrom("fresh", retry, outs, Tail(fresh), made + 1))
       ELSE ConnectResult(tok, made + 1, FALSE, "Exception", fresh)

\* Lines 918-953 of connect(): one connection attempt, and in the handler
\* the single retry: the token is cleared, _get_fresh_token() is called
\* (its exception propagates) and connect() is called again with
\* retry_on_auth_error=False.  outs are the outcomes that the attempts meet,
\* fresh those of the logins still to come, made the attempts made so far.
ConnectTry(tok, retry, outs, fresh, made) ==
  IF made >= Len(outs) THEN ConnectResult(tok, made, FALSE, "Exception", fresh)
  ELSE IF outs[made + 1].ok THEN ConnectResult(tok, made + 1, TRUE, "none", fresh)
  ELSE IF is_auth_error(outs[made + 1].exc) /\ retry /\ creds.username /\ creds.password
       THEN (IF fresh = <<>> \/ ~Head(fresh)
             THEN ConnectResult("none", made + 1, FALSE, "LoginError", Tail0(fresh))
             ELSE ConnectFrom("fresh", FALSE, outs, Tail(fresh), made + 1))
       ELSE ConnectResult(tok, made + 1, FALSE, "Exception", fresh)

\* connect() from its first line: _ensure_token() (lines 863-880) returns
\* the token held, else logs in with _get_fresh_token() (lines 765-861),
\* which needs the credentials and may fail; then the try block.
ConnectFrom(tok, retry, outs, fresh, made) ==
  IF tok # "none" THEN ConnectTry(tok, retry, outs, fresh, made)
  ELSE IF ~(creds.username /\ creds.password) THEN ConnectResult(tok, made, FALSE, "ValueError", fresh)
  ELSE IF fresh = <<>> \/ ~Head(fresh) THEN ConnectResult(tok, made, FALSE, "LoginError", Tail0(fresh))
  ELSE ConnectTry("fresh", retry, outs, Tail(fresh), made)

\* What a connect() call that came out as r was given and met: its flag,
\* the token held, the outcomes of the attempts made and of the logins made.
Used(retry, outs, fresh, r) ==
  [retry |-> retry, token |-> token,
   outs |-> SubSeq(outs, 1, r.attempts),
   fresh |-> SubSeq(fresh, 1, Len(fresh) - Len(r.left))]

\* The effect of a connect() call that came out as r.
Connected(op, retry, outs, fresh, r) ==
  /\ token' = r.token
  /\ attempts' = r.attempts
  /\ connected' = (connected \/ r.up)
  /\ link' = IF r.up THEN "up" ELSE link
  /\ session_msgs' = IF r.up THEN 0 ELSE session_msgs
  /\ last' = [op |-> op,
              arg |-> Used(retry, outs, fresh, r),
              exc |-> r.exc, ret |-> PyNone,
              at |-> clock, before |-> update_count, prev |-> Earlier]

\* BambuPrinter.connect(retry_on_auth_error=retry), called on a printer that
\* is not connected, while the transport thread is idle.
connect(retry, outs, fresh) ==
  /\ ~connected
  /\ inflight.pc = "idle"
  /\ Connected("connect", retry, outs, fresh, ConnectFrom(token, retry, outs, fresh, 0))
  /\ UNCHANGED <<state_data, last_update, update_count, clock, applies, latest, last_seen,
                 creds, inflight, on_update, alpha_vars, tapo_vars, alias_vars>>

\* BambuPrinter.disconnect()
disconnect ==
  /\ inflight.pc = "idle"
  /\ connected' = FALSE
  /\ link' = IF link = "up" THEN "down" ELSE link
  /\ last' = [op |-> "disconnect", arg |-> PyNone, exc |-> "none", ret |-> PyNone,
              at |-> clock, before |-> update_count, prev |-> Earlier]
  /\ UNCHANGED <<state_data, last_update, update_count, clock, applies, latest, last_seen,
                 creds, token, attempts, inflight, session_msgs, on_update,
                 alpha_vars, tapo_vars, alias_vars>>

\* BambuPrinter.reconnect(): disconnect(), self._accumulator.reset(), then
\* connect() with retry_on_auth_error at its default, True, which came out
\* as r.
Reconnected(outs, fresh, r) ==
  /\ state_data' = InitStateData
  /\ last_update' = PyNone
  /\ update_count' = 0
  /\ applies' = 0
  /\ latest' = <<>>
  /\ last_seen' = <<>>
  /\ token' = r.token
  /\ attempts' = r.attempts
  /\ connected' = r.up
  /\ link' = IF r.up THEN "up" ELSE IF link = "up" THEN "down" ELSE link
  /\ session_msgs' = 0
  /\ held' = HeldAfterReset
  /\ given' = GivenAfterReset
  /\ last' = [op |-> "reconnect", arg |-> Used(TRUE, outs, fresh, r),
              exc |-> r.exc, ret |-> PyNone,
              at |-> clock, before |-> update_count, prev |-> Earlier]

reconnect(outs, fresh) ==
  /\ inflight.pc = "idle"
  /\ Reconnected(outs, fresh, ConnectFrom(token, TRUE, outs, fresh, 0))
  /\ UNCHANGED <<clock, creds, inflight, on_update, alpha_vars, tapo_vars>>

\* ---- the transport thread: _on_mqtt_message(device_id, data), in steps
\* The handler starts: an empty message is skipped (line 900); else
\* update() stamps and counts the call (lines 659-661), tests
\* `"print" in data` and starts the merge of data["print"] (lines 664-665,
\* 671).  A message is a JSON object.
mqtt_receive(data) ==
  /\ link = "up"
  /\ inflight.pc = "idle"
  /\ update_count < MaxUpdates
  /\ IsDict(data)
  /\ IF ~Truthy(data)
     THEN /\ last' = [op |-> "skip", arg |-> data, exc |-> "none", ret |-> PyNone,
                      at |-> clock, before |-> update_count, prev |-> Earlier]
          /\ UNCHANGED <<last_update, update_count, inflight>>
     ELSE /\ last_update' = Timestamp(clock)
          /\ update_count' = update_count + 1
          /\ inflight' = [pc |-> "merge", data |-> data, ts |-> Timestamp(clock),
                          todo |-> IF "print" \in DOMAIN data.m /\ IsDict(data.m["print"])
                                   THEN DOMAIN data.m["print"].m ELSE {}]
          /\ UNCHANGED last
  /\ UNCHANGED <<state_data, clock, applies, latest, last_seen,
                 creds, token, connected, link, attempts, session_msgs, on_update,
                 alpha_vars, tapo_vars, alias_vars>>

\* One turn of the loop of _deep_merge over data["print"] (lines 671-675):
\* key k is merged into the document.
mqtt_merge_key(k) ==
  /\ inflight.pc = "merge"
  /\ k \in inflight.todo
  /\ state_data' = [state_data EXCEPT !["print"] =
                      PyDict(deep_merge(state_data["print"].m,
                                        k :> inflight.data.m["print"].m[k]))]
  /\ inflight' = [inflight EXCEPT !.todo = @ \ {k}]
  /\ held' = HeldAfterWrite(state_data')
  /\ given' = GivenAfterMerge(state_data["print"].m, k :> inflight.data.m["print"].m[k],
                              state_data'["print"].m)
  /\ UNCHANGED <<last_update, update_count, clock, last, applies, latest, last_seen,
                 creds, token, connected, link, attempts, session_msgs, on_update,
                 alpha_vars, tapo_vars>>

\* `if self._on_update: self._on_update(state)` (lines 905-906): the states
\* that the callback was called with, given what update() raised and returned.
CallbackCalls(exc, state) == IF on_update /\ exc = "none" THEN <<state>> ELSE <<>>

\* The merge is over; update() derives the PrinterState (line 667), the
\* handler calls the callback with it if one is installed, and ends.  A
\* value under "print" that is not a dict raises in _deep_merge.
mqtt_finish ==
  /\ inflight.pc = "merge"
  /\ inflight.todo = {}
  /\ last' = [op |-> "update", arg |-> inflight.data,
              exc |-> Raised(MergeStep(state_data, PyDict(<<>>)),
                             from_mqtt_data(state_data, inflight.ts, inflight.ts)),
              ret |-> Returned(Raised(MergeStep(state_data, PyDict(<<>>)),
                                      from_mqtt_data(state_data, inflight.ts, inflight.ts)),
                               from_mqtt_data(state_data, inflight.ts, inflight.ts)),
              called |-> CallbackCalls(
                           Raised(MergeStep(state_data, PyDict(<<>>)),
                                  from_mqtt_data(state_data, inflight.ts, inflight.ts)),
                           from_mqtt_data(state_data, inflight.ts, inflight.ts).val),
              at |-> clock, before |-> update_count - 1, prev |-> Earlier]
  /\ applies' = applies + 1
  /\ latest' = LatestAfter(latest, inflight.data.m)
  /\ last_seen' = SeenAfter(last_seen, inflight.data)
  /\ session_msgs' = session_msgs + 1
  /\ inflight' = [pc |-> "idle"]
  /\ UNCHANGED <<state_data, last_update, update_count, clock,
                 creds, token, connected, link, attempts, on_update,
                 alpha_vars, tapo_vars, alias_vars>>

\* ---- a printer with its transport thread and its owner
\* BambuPrinter.__init__: a token is given or not, and so are the
\* username and password.
PrinterInit ==
  /\ creds \in [username : BOOLEAN, password : BOOLEAN]
  /\ token \in {"none", "given"}
  /\ connected = FALSE
  /\ link = "none"
  /\ attempts = 0
  /\ inflight = [pc |-> "idle"]
  /\ session_msgs = 0
  /\ on_update \in BOOLEAN
  /\ NoApi
  /\ NewSampler
  /\ NothingKept
  /\ NewAccumulator
PrinterUpdates == {DocTemp, DocPercent, DocEmpty, DocHot}
AllOk == [i \in 1..MaxOutcomes |-> Ok(PyNone)]
NoLogin == <<>>

PrinterNext ==
  \/ connect(TRUE, AllOk, NoLogin)
  \/ disconnect
  \/ reconnect(AllOk, NoLogin)
  \/ \E data \in PrinterUpdates : mqtt_receive(data)
  \/ \E k \in {"nozzle_temper", "gcode_state", "mc_percent"} : mqtt_merge_key(k)
  \/ mqtt_finish
  \/ get_state
  \/ Tick

PrinterSpec == PrinterInit /\ [][PrinterNext]_vars

\* ---- connect() against every run of attempt and login outcomes
\* The logins that one connect() call can need: one for a missing token,
\* one for the retry.
MaxLogins == 2

ConnectNext ==
  \/ \E retry \in BOOLEAN, outs \in [1..MaxOutcomes -> AttemptOutcomes],
        fresh \in [1..MaxLogins -> BOOLEAN] : connect(retry, outs, fresh)
  \/ disconnect

ConnectSpec == PrinterInit /\ [][ConnectNext]_vars

\* ------------------------------------------------------------ AlphaESSAPI
\* hashlib.sha512(data).hexdigest(): the digest is a function of the bytes
\* hashed and of nothing else; distinct inputs are given distinct digests.
Sha512Hex(data) == [sha512 |-> data]

\* str.encode(): each of the ASCII characters used here becomes one byte.
Encode(text) == [i \in 1..Len(text) |-> [byte |-> text[i]]]

\* Signing with the secret placed before the identifier.
generate_signature_swapped(client, timestamp) ==
  Sha512Hex(Encode(client.app_secret.s \o client.app_id.s \o IntChars(timestamp)))

\* AlphaESSAPI._generate_signature(timestamp):
\* sha512(f"{app_id}{app_secret}{timestamp}".encode()).hexdigest()
generate_signature(client, timestamp) ==
  Sha512Hex(Encode(client.app_id.s \o client.app_secret.s \o IntChars(timestamp)))

\* time.time(): seconds since the epoch as a float, here whole seconds and
\* milliseconds; the clock of the run advances by TickMillis at a time.
Epoch == 1700000000
TickMillis == 1500
time_time(c) == [whole |-> Epoch + (c * TickMillis) \div 1000,
                 milli |-> (c * TickMillis) % 1000]

\* int(x) of a non-negative float: the fraction is dropped.
IntOfTime(t) == t.whole

\* AlphaESSAPI._get_headers(), called when the clock reads c.
get_headers(client, c) ==
  [appId |-> client.app_id,
   timeStamp |-> PyStr(IntChars(IntOfTime(time_time(c)))),
   sign |-> generate_signature(client, IntOfTime(time_time(c))),
   ContentType |-> "application/json"]

\* AlphaESSAPI.parse_system_sn(sn_arg): the module never imports os, so a
\* missing argument ends in NameError at os.environ; an empty one in
\* ValueError.
parse_system_sn(sn_arg) ==
  IF sn_arg = PyNone THEN Raise("NameError")
  ELSE IF ~Truthy(sn_arg) THEN Raise("ValueError")
  ELSE Ok(sn_arg)

\* AlphaESSAPI.__init__(app_id, app_secret): a missing argument is looked up
\* in os.environ, and os is not imported.
AlphaESSAPI_init(app_id, app_secret) ==
  /\ api = PyNone
  /\ api' = IF app_id = PyNone \/ app_secret = PyNone THEN api
            ELSE [app_id |-> app_id, app_secret |-> app_secret]
  /\ last' = [op |-> "AlphaESSAPI", arg |-> <<app_id, app_secret>>,
              exc |-> IF app_id = PyNone \/ app_secret = PyNone THEN "NameError" ELSE "none",
              ret |-> PyNone, at |-> clock, before |-> update_count, prev |-> Earlier]
  /\ UNCHANGED <<state_data, last_update, update_count, clock, applies, latest, last_seen,
                 printer_vars, sent, tapo_vars, alias_vars>>

\* What requests.get(...) comes to: a reply whose JSON body is json, or a
\* requests.exceptions.RequestException with the text msg (a failed
\* connection, a timeout, an HTTP error status from raise_for_status()).
Reply(json) == [kind |-> "reply", json |-> json]
Failed(msg) == [kind |-> "failed", msg |-> msg]

\* A request method without its try/except: a failed request raises.
ApiReturnRaising(answer) ==
  IF answer.kind = "failed" THEN Raise("RequestException") ELSE Ok(answer.json)

\* Lines 92-107, the same in the six request methods: the body of the reply
\* is returned whatever its code; a RequestException is caught and
\* {"error": str(e)} is returned.
ApiReturn(answer) ==
  IF answer.kind = "failed" THEN Ok(PyDict("error" :> PyStr(answer.msg)))
  ELSE Ok(answer.json)

\* A call that goes through one request method: the serial number is
\* parsed first (sn is Ok(...) for a method without one) and the call
\* raises if that fails; then the headers are made and
\* requests.get(url, headers=headers, params=params) is called, once; the
\* call ends with result.  The record keeps the arguments, the answer of
\* the server and the number of requests made.
Call(op, args, path, sn, params, answer, result) ==
  /\ sent' = IF sn.ok
             THEN [url |-> path, headers |-> get_headers(api, clock), params |-> params,
                   at |-> clock]
             ELSE sent
  /\ last' = [op |-> op, arg |-> args,
              exc |-> IF ~sn.ok THEN sn.exc ELSE IF result.ok THEN "none" ELSE result.exc,
              ret |-> IF sn.ok /\ result.ok THEN result.val ELSE PyNone,
              answer |-> IF sn.ok THEN answer ELSE PyNone,
              requests |-> IF sn.ok THEN 1 ELSE 0,
              at |-> clock, before |-> update_count, prev |-> Earlier]
  /\ UNCHANGED <<state_data, last_update, update_count, clock, applies, latest, last_seen,
                 printer_vars, api, tapo_vars, alias_vars>>

\* What the six request methods share.
Request(op, path, sn, params, answer) ==
  Call(op, params, path, sn, params, answer, ApiReturn(answer))

\* params = {"sysSn": system_sn}
SnParams(sn) == IF sn.ok THEN "sysSn" :> sn.val ELSE <<>>
\* params = {"sysSn": system_sn, "queryDate": query_date}
DayParams(sn, query_date) ==
  IF sn.ok THEN "sysSn" :> sn.val @@ "queryDate" :> query_date ELSE <<>>

get_last_power_data(system_sn, answer) ==
  /\ api # PyNone
  /\ Request("get_last_power_data", "getLastPowerData", parse_system_sn(system_sn),
             SnParams(parse_system_sn(system_sn)), answer)

get_system_summary(system_sn, answer) ==
  /\ api # PyNone
  /\ Request("get_system_summary", "getSumDataForCustomer", parse_system_sn(system_sn),
             SnParams(parse_system_sn(system_sn)), answer)

get_system_list(answer) ==
  /\ api # PyNone
  /\ Request("get_system_list", "getEssList", Ok(PyNone), <<>>, answer)


get_one_day_power(query_date, system_sn, answer) ==
  /\ api # PyNone
  /\ Request("get_one_day_power", "getOneDayPowerBySn", parse_system_sn(system_sn),
             DayParams(parse_system_sn(system_sn), query_date), answer)

get_one_day_energy(query_date, system_sn, answer) ==
  /\ api # PyNone
  /\ Request("get_one_day_energy", "getOneDateEnergyBySn", parse_system_sn(system_sn),
             DayParams(parse_system_sn(system_sn), query_date), answer)

get_charge_config(system_sn, answer) ==
  /\ api # PyNone
  /\ Request("get_charge_config", "getChargeConfigInfo", parse_system_sn(system_sn),
             SnParams(parse_system_sn(system_sn)), answer)

\* ---- a client and its requests
AppIds == {PyNone, PyStr(<<"a", "1">>), PyStr(<<"a">>)}
AppSecrets == {PyNone, PyStr(<<"1", "s">>), PyStr(<<"s">>)}
SystemSns == {PyNone, EmptyStr, PyStr(<<"S", "N", "1">>)}
QueryDates == {PyStr(<<"2", "0", "2", "4", "-", "0", "1", "-", "0", "2">>)}

\* ---- what the server answers
sTimeout == PyStr(<<"t", "i", "m", "e", "d", " ", "o", "u", "t">>)
sBadParameter == PyStr(<<"P", "a", "r", "a", "m", "e", "t", "e", "r", " ",
                        "e", "r", "r", "o", "r">>)
\* {"code": 6001, "msg": "Parameter error", "data": null}
ReplyRefused ==
  PyDict("code" :> PyInt(6001) @@ "msg" :> sBadParameter @@ "data" :> PyNone)
\* getLastPowerData: power now, exporting to the grid, with PV details
ReplyPower ==
  PyDict("code" :> PyInt(200) @@ "msg" :> PyStr(<<"S", "u", "c", "c", "e", "s", "s">>)
         @@ "data" :> PyDict("ppv" :> PyInt(1200) @@ "pbat" :> PyInt(0) @@ "soc" :> PyInt(55)
                             @@ "pload" :> PyInt(900) @@ "pgrid" :> PyInt(0 - 300)
                             @@ "ppvDetailData" :> PyDict("ppv1" :> PyInt(700)
                                                          @@ "ppv2" :> PyInt(500))
                             @@ "pevDetailData" :> PyDict(<<>>)))
\* getOneDateEnergyBySn
ReplyEnergy ==
  PyDict("code" :> PyInt(200)
         @@ "data" :> PyDict("epv" :> PyInt(12) @@ "eCharge" :> PyInt(3)
                             @@ "eInput" :> PyInt(4)))
\* getOneDayPowerBySn: two records
ReplyTimeline ==
  PyDict("code" :> PyInt(200)
         @@ "data" :> PyList(<<PyDict("uploadTime" :> PyStr(<<"0", "0", ":", "0", "5">>)
                                      @@ "ppv" :> PyInt(100) @@ "load" :> PyInt(80)),
                               PyDict("ppv" :> PyInt(200) @@ "cobat" :> PyInt(40))>>))
Answers == {Reply(ReplyPower), Reply(ReplyRefused), Failed(sTimeout.s)}

AlphaInit ==
  /\ NoPrinter
  /\ NoApi
  /\ NewSampler
  /\ NothingKept
  /\ NewAccumulator

AlphaNext ==
  \/ \E app_id \in AppIds, app_secret \in AppSecrets : AlphaESSAPI_init(app_id, app_secret)
  \/ \E sn \in SystemSns, answer \in Answers : get_last_power_data(sn, answer)
  \/ \E sn \in SystemSns, answer \in Answers : get_system_summary(sn, answer)
  \/ \E answer \in Answers : get_system_list(answer)
  \/ \E d \in QueryDates, sn \in SystemSns, answer \in Answers : get_one_day_power(d, sn, answer)
  \/ \E d \in QueryDates, sn \in SystemSns, answer \in Answers : get_one_day_energy(d, sn, answer)
  \/ \E sn \in SystemSns, answer \in Answers : get_charge_config(sn, answer)
  \/ Tick

AlphaSpec == AlphaInit /\ [][AlphaNext]_vars

\* ------------------------------------------------------------ AlphaESSClient
sFailedToRetrieve ==
  PyStr(<<"F", "a", "i", "l", "e", "d", " ", "t", "o", " ", "r", "e", "t", "r", "i", "e",
          "v", "e", " ", "d", "a", "t", "a">>)
sImporting == PyStr(<<"i", "m", "p", "o", "r", "t", "i", "n", "g">>)
sExporting == PyStr(<<"e", "x", "p", "o", "r", "t", "i", "n", "g">>)
sZero == PyStr(<<"z", "e", "r", "o">>)
sNA == PyStr(<<"N", "/", "A">>)

\* `data.get("code") != 200`, and the dict returned then:
\* {"error": data.get("msg", "Failed to retrieve data"), "code": data.get("code")}
IsCode200(data) == Get(data.m, "code", PyNone) = PyInt(200)
ErrorDict(data) ==
  PyDict("error" :> Get(data.m, "msg", sFailedToRetrieve)
         @@ "code" :> Get(data.m, "code", PyNone))

\* {out: src.get(key, default), ...} for the rows <<out, key, default>>
Pick(src, rows) ==
  [out \in {rows[i][1] : i \in 1..Len(rows)} |->
     LET row == rows[CHOOSE i \in 1..Len(rows) : rows[i][1] = out]
     IN Get(src, row[2], row[3])]

\* The result of a fetch_* method on the dict its request method returned,
\* given what the formatting of a code-200 reply comes to.
Fetched(data, formatted) == IF ~IsCode200(data) THEN Ok(ErrorDict(data)) ELSE formatted

\* ---- fetch_power_data, lines 532-581
PowerRows ==
  << <<"pv_total_power_w", "ppv", PyInt(0)>>, <<"battery_power_w", "pbat", PyInt(0)>>,
     <<"battery_soc_percent", "soc", PyInt(0)>>, <<"load_power_w", "pload", PyInt(0)>>,
     <<"grid_power_w", "pgrid", PyInt(0)>>, <<"ev_charger_total_w", "pev", PyInt(0)>> >>
PvRows ==
  << <<"pv1_w", "ppv1", PyInt(0)>>, <<"pv2_w", "ppv2", PyInt(0)>>,
     <<"pv3_w", "ppv3", PyInt(0)>>, <<"pv4_w", "ppv4", PyInt(0)>> >>
GridRows ==
  << <<"l1_w", "pmeterL1", PyInt(0)>>, <<"l2_w", "pmeterL2", PyInt(0)>>,
     <<"l3_w", "pmeterL3", PyInt(0)>> >>
EvRows ==
  << <<"ev1_w", "ev1Power", PyInt(0)>>, <<"ev2_w", "ev2Power", PyInt(0)>>,
     <<"ev3_w", "ev3Power", PyInt(0)>>, <<"ev4_w", "ev4Power", PyInt(0)>> >>

\* The sign of a number; comparing anything else with 0 is a TypeError.
GridStatus(pgrid) ==
  IF pgrid.t \notin {"int", "float"} THEN Raise("TypeError")
  ELSE LET n == IF pgrid.t = "int" THEN pgrid.n ELSE pgrid.milli
       IN Ok(IF n > 0 THEN sImporting ELSE IF n < 0 THEN sExporting ELSE sZero)

\* `details = power_data.get(key, {}); if details: result[out] = {...}`
Details(power_data, key, out, rows) ==
  LET details == Get(power_data, key, EmptyDict)
  IN IF ~Truthy(details) THEN Ok(<<>>)
     ELSE IF ~IsDict(details) THEN Raise("AttributeError")
     ELSE Ok(out :> PyDict(Pick(details.m, rows)))

FormatPower(data) ==
  LET power_data == Get(data.m, "data", EmptyDict)
  IN IF ~IsDict(power_data) THEN Raise("AttributeError")
     ELSE LET status == GridStatus(Get(power_data.m, "pgrid", PyInt(0)))
              pv == Details(power_data.m, "ppvDetailData", "pv_details", PvRows)
              grid == Details(power_data.m, "pgridDetailData", "grid_details", GridRows)
              ev == Details(power_data.m, "pevDetailData", "ev_details", EvRows)
          IN IF ~status.ok THEN status
             ELSE IF ~pv.ok THEN pv
             ELSE IF ~grid.ok THEN grid
             ELSE IF ~ev.ok THEN ev
             ELSE Ok(PyDict(Pick(power_data.m, PowerRows) @@ "grid_status" :> status.val
                            @@ pv.val @@ grid.val @@ ev.val))

\* ---- fetch_one_day_energy, lines 680-700
FormatEnergy(data, query_date) ==
  LET energy == Get(data.m, "data", EmptyDict)
  IN IF ~IsDict(energy) THEN Raise("AttributeError")
     ELSE Ok(PyDict(
       "query_date" :> query_date
       @@ "generation" :> PyDict(Pick(energy.m, << <<"pv_generation_kwh", "epv", PyInt(0)>> >>))
       @@ "battery" :> PyDict(Pick(energy.m,
            << <<"total_charged_kwh", "eCharge", PyInt(0)>>,
               <<"total_discharged_kwh", "eDischarge", PyInt(0)>>,
               <<"grid_charged_kwh", "eGridCharge", PyInt(0)>> >>))
       @@ "grid" :> PyDict(Pick(energy.m,
            << <<"grid_consumption_kwh", "eInput", PyInt(0)>>,
               <<"feed_in_kwh", "eOutput", PyInt(0)>> >>))
       @@ "ev_charging" :> PyDict(Pick(energy.m,
            << <<"charging_pile_kwh", "eChargingPile", PyInt(0)>> >>))))

\* ---- fetch_one_day_power, lines 722-746
RecordRows ==
  << <<"upload_time", "uploadTime", sNA>>, <<"pv_power_w", "ppv", PyInt(0)>>,
     <<"battery_power_w", "cobat", PyInt(0)>>, <<"load_w", "load", PyInt(0)>>,
     <<"grid_charge_w", "gridCharge", PyInt(0)>>, <<"feed_in_w", "feedIn", PyInt(0)>>,
     <<"charging_pile_w", "pChargingPile", PyInt(0)>> >>

\* q[:n]
SliceTo(q, n) ==
  IF n >= 0 THEN SubSeq(q, 1, IF n < Len(q) THEN n ELSE Len(q))
  ELSE SubSeq(q, 1, IF Len(q) + n > 0 THEN Len(q) + n ELSE 0)

FormatTimeline(data, query_date, max_records) ==
  LET power_data == Get(data.m, "data", EmptyList)
  IN IF power_data.t # "seq" THEN Raise("TypeError")
     ELSE LET shown == IF max_records = PyNone THEN power_data.q
                       ELSE SliceTo(power_data.q, max_records.n)
          IN IF \E i \in 1..Len(shown) : ~IsDict(shown[i]) THEN Raise("AttributeError")
             ELSE Ok(PyDict(
               "query_date" :> query_date
               @@ "total_records" :> PyInt(Len(power_data.q))
               @@ "returned_records" :> PyInt(Len(shown))
               @@ "records" :> PyList([i \in 1..Len(shown) |->
                                         PyDict(Pick(shown[i].m, RecordRows))])))

\* ---- the methods
\* A fetch_* or print_* method parses the serial number, and the request
\* method that it calls parses the parsed one again.
ParsedTwice(sn_arg) ==
  IF ~parse_system_sn(sn_arg).ok THEN parse_system_sn(sn_arg)
  ELSE parse_system_sn(parse_system_sn(sn_arg).val)

fetch_power_data(system_sn, answer) ==
  /\ api # PyNone
  /\ Call("fetch_power_data", [system_sn |-> system_sn], "getLastPowerData",
          ParsedTwice(system_sn), SnParams(ParsedTwice(system_sn)), answer,
          Fetched(ApiReturn(answer).val, FormatPower(ApiReturn(answer).val)))

\* data = self.get_one_day_energy(query_date, system_sn)
fetch_one_day_energy(query_date, system_sn, answer) ==
  /\ api # PyNone
  /\ Call("fetch_one_day_energy", [query_date |-> query_date, system_sn |-> system_sn],
          "getOneDateEnergyBySn",
          ParsedTwice(system_sn), DayParams(ParsedTwice(system_sn), query_date), answer,
          Fetched(ApiReturn(answer).val, FormatEnergy(ApiReturn(answer).val, query_date)))

\* data = self.get_one_day_power(query_date, system_sn)
fetch_one_day_power(query_date, system_sn, max_records, answer) ==
  /\ api # PyNone
  /\ Call("fetch_one_day_power", [query_date |-> query_date, system_sn |-> system_sn],
          "getOneDayPowerBySn",
          ParsedTwice(system_sn), DayParams(ParsedTwice(system_sn), query_date), answer,
          Fetched(ApiReturn(answer).val,
                  FormatTimeline(ApiReturn(answer).val, query_date, max_records)))

\* What a print_one_day_* method hands to its request method, whose
\* signature is (query_date, system_sn): the call is
\* self.get_one_day_energy(system_sn, query_date), so the parsed serial
\* number arrives as query_date, and the date arrives as system_sn and is
\* parsed as one.
PrintedSn(query_date, system_sn) ==
  IF ~parse_system_sn(system_sn).ok THEN parse_system_sn(system_sn)
  ELSE parse_system_sn(query_date)
PrintedParams(query_date, system_sn) ==
  DayParams(PrintedSn(query_date, system_sn), parse_system_sn(system_sn).val)

\* The rest of a print_one_day_* method: the data of a code-200 reply is
\* printed, a message otherwise; nothing is returned.
Printed(data, empty) ==
  IF ~IsCode200(data) THEN Ok(PyNone)
  ELSE IF Get(data.m, "data", empty).t # empty.t THEN Raise("AttributeError")
  ELSE Ok(PyNone)

print_one_day_energy(query_date, system_sn, answer) ==
  /\ api # PyNone
  /\ Call("print_one_day_energy", [query_date |-> query_date, system_sn |-> system_sn],
          "getOneDateEnergyBySn",
          PrintedSn(query_date, system_sn), PrintedParams(query_date, system_sn), answer,
          Printed(ApiReturn(answer).val, EmptyDict))

print_one_day_power(query_date, system_sn, answer) ==
  /\ api # PyNone
  /\ Call("print_one_day_power", [query_date |-> query_date, system_sn |-> system_sn],
          "getOneDayPowerBySn",
          PrintedSn(query_date, system_sn), PrintedParams(query_date, system_sn), answer,
          Printed(ApiReturn(answer).val, EmptyList))

\* ---- a client and its calls
PowerAnswers == {Reply(ReplyPower), Reply(ReplyRefused), Failed(sTimeout.s)}
EnergyAnswers == {Reply(ReplyEnergy), Reply(ReplyRefused), Failed(sTimeout.s)}
TimelineAnswers == {Reply(ReplyTimeline), Reply(ReplyRefused), Failed(sTimeout.s)}
RecordLimits == {PyNone, PyInt(1)}

ClientNext ==
  \/ \E app_id \in AppIds, app_secret \in AppSecrets : AlphaESSAPI_init(app_id, app_secret)
  \/ \E sn \in SystemSns, answer \in PowerAnswers : fetch_power_data(sn, answer)
  \/ \E d \in QueryDates, sn \in SystemSns, answer \in EnergyAnswers :
       fetch_one_day_energy(d, sn, answer)
  \/ \E d \in QueryDates, sn \in SystemSns, n \in RecordLimits, answer \in TimelineAnswers :
       fetch_one_day_power(d, sn, n, answer)
  \/ \E d \in QueryDates, sn \in SystemSns, answer \in EnergyAnswers :
       print_one_day_energy(d, sn, answer)
  \/ \E d \in QueryDates, sn \in SystemSns, answer \in TimelineAnswers :
       print_one_day_power(d, sn, answer)
  \/ Tick

ClientSpec == AlphaInit /\ [][ClientNext]_vars

\* ------------------------------------------------------------ TapoSampler
\* What the tapo library hands out: the client, the P110 handler, and result
\* objects, which have a to_dict method or not.
ApiClient == [t |-> "client"]
P110 == [t |-> "device"]
Result(d) == [t |-> "obj", has_to_dict |-> TRUE, to_dict |-> Ok(d), str |-> <<"R">>]
Broken == [t |-> "obj", has_to_dict |-> TRUE, to_dict |-> Raise("Exception"), str |-> <<"B">>]
Plain == [t |-> "obj", has_to_dict |-> FALSE, to_dict |-> Ok(PyNone), str |-> <<"P">>]

\* {"raw": str(obj)}
RawDict(obj) ==
  PyDict("raw" :> (IF obj.t = "obj" THEN PyStr(obj.str) ELSE PyStrConv(obj).val))

\* a or b
PyOr(a, b) == IF Truthy(a) THEN a ELSE b

obj_to_dict(obj) ==
  IF obj = PyNone THEN EmptyDict
  ELSE IF IsDict(obj) THEN obj
  ELSE IF obj.t = "obj" /\ obj.has_to_dict
    THEN IF obj.to_dict.ok THEN PyOr(obj.to_dict.val, EmptyDict) ELSE RawDict(obj)
  ELSE RawDict(obj)

\* str(exc) of an exception raised while a response is read: its type here.
ExcText(tag) == PyStr(<<tag>>)

Cleared == [client |-> PyNone, device |-> PyNone, connected |-> FALSE]

\* connect(): what the sampler holds afterwards, what was raised, and how
\* many clients were made and devices looked up.  `outcome` is how the
\* device lookup ends: "ok", or the exception it raises.
Connecting(t, outcome) ==
  IF t.connected THEN [tapo |-> t, exc |-> "none", made |-> 0, lookups |-> 0]
  ELSE IF outcome = "ok"
    THEN [tapo |-> [client |-> ApiClient, device |-> P110, connected |-> TRUE],
          exc |-> "none", made |-> 1, lookups |-> 1]
  ELSE [tapo |-> [t EXCEPT !.client = ApiClient], exc |-> outcome, made |-> 1, lookups |-> 1]

\* A close() that leaves the sampler as it is when closing the client raises.
ClosingUnlessRaised(t, outcome) ==
  IF t.client # PyNone /\ outcome # "ok" THEN [tapo |-> t, exc |-> outcome]
  ELSE [tapo |-> Cleared, exc |-> "none"]

\* close(): `outcome` is how closing the client ends.  An Exception is passed
\* over and the finally block clears the three fields.
Closing(t, outcome) ==
  IF t.client # PyNone
  THEN [tapo |-> [client |-> PyNone, device |-> PyNone, connected |-> FALSE], exc |-> "none"]
  ELSE [tapo |-> [t EXCEPT !.device = PyNone, !.connected = FALSE], exc |-> "none"]

\* ---- get_one_sample, the four try blocks
SampleSteps ==
  << [call |-> "get_current_power", key |-> "current_power"],
     [call |-> "get_device_usage", key |-> "device_usage"],
     [call |-> "get_energy_usage", key |-> "energy_usage"],
     [call |-> "get_device_info", key |-> "device_info"] >>

\* power = curd.get("current_power") or curd.get("power") or curd.get("value")
PowerOf(curd) ==
  PyOr(PyOr(Get(curd, "current_power", PyNone), Get(curd, "power", PyNone)),
       Get(curd, "value", PyNone))

PowerFailed(text) == [out |-> "power_w" :> PyNone, errors |-> "current_power" :> text]

\* 1. current power: `r` is how the device call ends, a result or Raise(text).
PowerStep(r) ==
  IF ~r.ok THEN PowerFailed(PyStr(r.exc))
  ELSE LET curd == obj_to_dict(r.val)
       IN IF ~IsDict(curd) THEN PowerFailed(ExcText("AttributeError"))
          ELSE LET power == PowerOf(curd.m)
                   conv == IF power # PyNone THEN PyFloatConv(power) ELSE Ok(PyNone)
               IN IF ~conv.ok THEN PowerFailed(ExcText(conv.exc))
                  ELSE [out |-> "power_w" :> conv.val @@ "current_power_raw" :> curd,
                        errors |-> <<>>]

\* 2.-4. device usage, energy usage, device info
UsageStep(key, r) ==
  IF r.ok THEN [out |-> key :> obj_to_dict(r.val), errors |-> <<>>]
  ELSE [out |-> key :> EmptyDict, errors |-> key :> PyStr(r.exc)]

StepResult(i, r) == IF i = 1 THEN PowerStep(r) ELSE UsageStep(SampleSteps[i].key, r)

\* A sampler that gives up at the first call that raised.
AfterStepUnlessFailed(acc, i, r) ==
  IF DOMAIN acc.errors # {} THEN acc
  ELSE [out |-> acc.out @@ StepResult(i, r).out,
        errors |-> acc.errors @@ StepResult(i, r).errors,
        calls |-> Append(acc.calls, SampleSteps[i].call)]

\* `out`, `errors` and the device calls made so far, after try block i.
AfterStep(acc, i, r) ==
  [out |-> acc.out @@ StepResult(i, r).out,
   errors |-> acc.errors @@ StepResult(i, r).errors,
   calls |-> Append(acc.calls, SampleSteps[i].call)]

RECURSIVE Collected(_, _, _)
Collected(acc, i, rs) ==
  IF i > Len(SampleSteps) THEN acc ELSE Collected(AfterStep(acc, i, rs[i]), i + 1, rs)

sDeviceIp == PyStr(<<"1", "0", ".", "0", ".", "0", ".", "9">>)

\* The body of get_one_sample on a connected sampler: `rs` is how the four
\* device calls end.
Collect(rs) ==
  LET acc == Collected([out |-> "timestamp" :> Timestamp(clock) @@ "device_ip" :> sDeviceIp,
                        errors |-> <<>>, calls |-> <<>>], 1, rs)
  IN [ret |-> PyDict(IF DOMAIN acc.errors # {} THEN acc.out @@ "errors" :> PyDict(acc.errors)
                     ELSE acc.out),
      calls |-> acc.calls]

\* ---- the methods
TapoDone(op, now, record) ==
  /\ tapo' = now
  /\ last' = record @@ [op |-> op, was |-> tapo, at |-> clock, before |-> update_count,
                        prev |-> Earlier]
  /\ UNCHANGED <<state_data, last_update, update_count, clock, applies, latest, last_seen,
                 printer_vars, alpha_vars, alias_vars>>

TapoSampler_connect(outcome) ==
  LET c == Connecting(tapo, outcome)
  IN /\ outcome = "ok" \/ ~tapo.connected
     /\ TapoDone("TapoSampler_connect", c.tapo,
                 [arg |-> outcome, exc |-> c.exc, ret |-> PyNone,
                  made |-> c.made, lookups |-> c.lookups])

TapoSampler_close(outcome) ==
  LET c == Closing(tapo, outcome)
  IN /\ outcome = "ok" \/ tapo.client # PyNone
     /\ TapoDone("TapoSampler_close", c.tapo, [arg |-> outcome, exc |-> c.exc, ret |-> PyNone])

\* `if not self._connected: await self.connect()`, then the four try blocks.
get_one_sample(outcome, rs) ==
  LET c == Connecting(tapo, outcome)
      sample == Collect(rs)
  IN /\ outcome = "ok" \/ ~tapo.connected
     /\ IF c.exc # "none"
        THEN TapoDone("get_one_sample", c.tapo,
                      [arg |-> <<>>, exc |-> c.exc, ret |-> PyNone, calls |-> <<>>])
        ELSE TapoDone("get_one_sample", c.tapo,
                      [arg |-> rs, exc |-> "none", ret |-> sample.ret, calls |-> sample.calls])

\* asyncio.run(_inner()) unless an event loop runs: connect(), then
\* get_one_sample() in a try whose finally block is close().
get_one_sample_sync(loop_running, outcome, rs, close_outcome) ==
  LET c == Connecting(tapo, outcome)
      sample == Collect(rs)
      closed == Closing(c.tapo, close_outcome)
  IN /\ outcome = "ok" \/ ~tapo.connected
     /\ IF loop_running
        THEN /\ outcome = "ok" /\ close_outcome = "ok"
             /\ TapoDone("get_one_sample_sync", tapo,
                         [arg |-> <<>>, exc |-> "RuntimeError", ret |-> PyNone,
                          made |-> 0, path |-> "loop"])
        ELSE IF c.exc # "none"
        THEN /\ close_outcome = "ok"
             /\ TapoDone("get_one_sample_sync", c.tapo,
                         [arg |-> <<>>, exc |-> c.exc, ret |-> PyNone,
                          made |-> c.made, path |-> "connect"])
        ELSE TapoDone("get_one_sample_sync", closed.tapo,
                      [arg |-> rs, exc |-> closed.exc, ret |-> sample.ret,
                       made |-> c.made, path |-> "sample"])

\* ---- a sampler and its calls
sOffline == <<"o", "f", "f", "l", "i", "n", "e">>
ConnectOutcomes == {"ok", "Exception", "TimeoutError"}
CloseOutcomes == {"ok", "Exception"}
PowerResponses ==
  { Raise(sOffline), Ok(PyNone), Ok(Broken),
    Ok(Result(PyDict("current_power" :> PyInt(5)))),
    Ok(Result(PyDict("current_power" :> PyInt(0)))),
    Ok(PyDict("power" :> PyFloat(12500))),
    Ok(PyDict("value" :> PyInt(0))) }
UsageReply == Ok(Result(PyDict("today" :> PyInt(3))))
\* How the other three calls end: none fails, one fails, two fail, all fail.
OtherResponses ==
  { <<UsageReply, Ok(Plain), Ok(PyNone)>>,
    <<Raise(sOffline), Ok(Plain), Ok(PyNone)>>,
    <<UsageReply, Raise(sOffline), Raise(sOffline)>>,
    <<Raise(sOffline), Raise(sOffline), Raise(sOffline)>> }
Responses == { <<p>> \o o : p \in PowerResponses, o \in OtherResponses }

TapoNext ==
  \/ \E outcome \in ConnectOutcomes : TapoSampler_connect(outcome)
  \/ \E outcome \in CloseOutcomes : TapoSampler_close(outcome)
  \/ \E outcome \in ConnectOutcomes, rs \in Responses : get_one_sample(outcome, rs)
  \/ \E loop_running \in BOOLEAN, outcome \in ConnectOutcomes, rs \in Responses,
        close_outcome \in CloseOutcomes :
       get_one_sample_sync(loop_running, outcome, rs, close_outcome)
  \/ Tick

TapoSpec == Init /\ [][TapoNext]_vars

\* ------------------------------------------------------------ claims
\* A step that is a call of update().
UpdateStep == last'.op = "update" /\ last' # last

\* The keys an update document holds at its top level (none if not a dict).
KeysOf(data) == IF IsDict(data) THEN data.m ELSE <<>>

\* At every level of old, a key that u does not hold keeps its value in new,
\* and new holds no key beyond those of old and u.
RECURSIVE Frame(_, _, _)
Frame(old, new, u) ==
  /\ \A k \in DOMAIN new : k \in DOMAIN old \/ k \in DOMAIN u
  /\ \A k \in DOMAIN old :
       /\ k \in DOMAIN new
       /\ IF k \notin DOMAIN u THEN new[k] = old[k]
          ELSE (IsDict(old[k]) /\ IsDict(u[k]))
                 => (IsDict(new[k]) /\ Frame(old[k].m, new[k].m, u[k].m))

\* C1 (incrementality): in every update(u), at every nesting level of the
\* canonical document, a key absent from u at that level keeps exactly the
\* value it had before the call; only keys present in u are written.
C1_Incrementality ==
  [][UpdateStep => Frame(state_data, state_data', KeysOf(last'.arg))]_vars

\* C1 witness: {"a": {"y": 2}} was merged under "print" into a document that
\* held {"a": {"x": 1}}, and x is still there beside y.
C1_Witness ==
  /\ last.op = "update" /\ last.arg = DocAY
  /\ state_data["print"].m["a"] = PyDict("x" :> PyInt(1) @@ "y" :> PyInt(2))

\* The paths of the document (or of the history) that lie below "print".
BelowPrint(paths) == {p \in paths : Len(p) >= 2 /\ p[1] = "print"}

ListPaths(m) == {p \in Nodes(m) : At(m, p).t = "seq"}

TypeConflicts(sd, u) ==
  {p \in Nodes(sd) \cap Nodes(u) : IsDict(At(sd, p)) # IsDict(At(u, p))}

\* C4 as stated: when update(u) meets a type conflict at a path, the call
\* does not fail and the document then holds u's value at that path (nothing
\* of the old value is left).
C4_TypeConflictOverwrite ==
  [][UpdateStep =>
       \A p \in TypeConflicts(state_data, KeysOf(last'.arg)) :
         /\ last'.exc = "none"
         /\ p \in Nodes(state_data')
         /\ At(state_data', p) = At(last'.arg.m, p)]_vars

\* The raw value a field is derived from: the default if no merged update held
\* its key, the value of the last update that held it if that is not a
\* mapping, else the mapping accumulated below the key.
MergedRaw(k, d) ==
  IF k \notin DOMAIN last_seen THEN d
  ELSE IF IsDict(last_seen[k]) THEN Rebuild(latest, <<"print", k>>)
  ELSE last_seen[k]

Derived == last.op \in {"update", "get_state"} /\ last.exc = "none"

\* C5 as stated: every derived field of a returned PrinterState is the
\* converted value carried by the most recent update that held the field's
\* key, or the default.
C5_FieldsFromLastUpdate ==
  Derived =>
    /\ \A i \in 1..Len(PrinterStateFields) :
         Ok(last.ret[PrinterStateFields[i].f])
           = Conv(PrinterStateFields[i].c,
                  Get(last_seen, PrinterStateFields[i].k, PrinterStateFields[i].d))
    /\ Ok(last.ret["ams"])
         = (IF "ams" \in DOMAIN last_seen THEN AMSState_from_dict(last_seen["ams"])
            ELSE Ok(PyNone))

\* C5 (amended): every derived field of a returned PrinterState is the
\* converted value at the field's key of the merge of all updates since the
\* last reset: the value of the most recent update that held the key when
\* that value is not a mapping, the mapping accumulated from all updates when
\* it is one (ams, ipcam, ...), the default when no update held the key.
C5_FieldsFromMerged ==
  Derived =>
    /\ \A i \in 1..Len(PrinterStateFields) :
         Ok(last.ret[PrinterStateFields[i].f])
           = Conv(PrinterStateFields[i].c,
                  MergedRaw(PrinterStateFields[i].k, PrinterStateFields[i].d))
    /\ Ok(last.ret["ams"])
         = (IF "ams" \in DOMAIN last_seen THEN AMSState_from_dict(MergedRaw("ams", PyNone))
            ELSE Ok(PyNone))

\* C5 witness: nozzle temperature 210.5 and state RUNNING from the first
\* update stand beside progress 42 from the second.
C5_Witness ==
  /\ last.op = "update" /\ last.arg = DocPercent /\ last.exc = "none"
  /\ last.ret["nozzle_temp"] = PyFloat(210500)
  /\ last.ret["gcode_state"] = sRUNNING
  /\ last.ret["print_percent"] = PyInt(42)

\* get_state() on a freshly constructed accumulator at clock reading n.
FreshState(n) == from_mqtt_data(InitStateData, Timestamp(n), Timestamp(n))

\* C6 (reset clears state): after reset() the counter is 0 and last_update
\* is None, and a get_state() that follows returns what get_state() returns
\* on a freshly constructed accumulator.
C6_ResetClears ==
  /\ last.op = "reset" => (update_count = 0 /\ last_update = PyNone)
  /\ (last.op = "get_state" /\ last.prev.op = "reset")
       => (last.exc = "none" /\ Ok(last.ret) = FreshState(last.at))

\* C6 witness: get_state() right after a reset() that discarded updates.
C6_Witness ==
  /\ last.op = "get_state" /\ last.prev.op = "reset" /\ last.prev.before > 0
  /\ last.exc = "none"

\* C7 as stated: update_count is the number of update() calls since the last
\* reset that merged an update.
C7_CountIsApplies == update_count = applies

\* C8 as stated: update() fails if and only if its argument is not a mapping.
C8_FailsIffNotMapping ==
  last.op = "update" => ((last.exc # "none") <=> ~IsDict(last.arg))

\* C9 as stated: an update() that raises leaves the document, the counter
\* and last_update as they were.
C9_FailedUpdateChangesNothing ==
  [][(UpdateStep /\ last'.exc # "none") =>
       UNCHANGED <<state_data, update_count, last_update>>]_vars

\* C10 as stated: update() given a mapping never fails, whatever the values
\* nested in it, and everything it holds under "print" is stored as it is.
C10_NestedValuesTolerated ==
  (last.op = "update" /\ IsDict(last.arg)) =>
    /\ last.exc = "none"
    /\ \A p \in Nodes(last.arg.m) :
         p[1] = "print" => (p \in Nodes(state_data)
                            /\ Mark(At(state_data, p)) = Mark(At(last.arg.m, p)))

\* C11 as stated: get_state() never raises, whatever document the updates
\* have left.
C11_DerivationNeverRaises == last.op = "get_state" => last.exc = "none"

\* A step that derives a view: get_state(), get_snapshot(), to_dict(),
\* loaded_trays or total_trays.
DerivingStep ==
  /\ last' # last
  /\ last'.op \in {"get_state", "get_snapshot", "to_dict", "loaded_trays", "total_trays"}

\* C12 (deriving never mutates): get_state(), get_snapshot(), to_dict() and
\* the loaded_trays/total_trays views leave the canonical document,
\* update_count and last_update unchanged.
C12_DerivingLeavesAccumulator ==
  [][DerivingStep => UNCHANGED <<state_data, update_count, last_update>>]_vars

\* C12 witness: a snapshot with its filament list was derived from a
\* document that updates had filled.
C12_Witness ==
  /\ last.op = "get_snapshot" /\ last.exc = "none"
  /\ update_count > 0
  /\ "filaments" \in DOMAIN last.ret
  /\ last.ret["filaments"] # <<>>

\* A get_state() call that follows a get_state() call, with no other call
\* between them (time may have passed).
RepeatedGetState == last.op = "get_state" /\ last'.op = "get_state"

\* A returned snapshot without its timestamp.
NoStamp(ret) ==
  IF ret = PyNone THEN ret ELSE [k \in DOMAIN ret \ {"timestamp"} |-> ret[k]]

\* What the document alone determines of a get_state() call: the exception
\* if it raises, else every field but the timestamp.
OfDocument(res) == IF res.ok THEN [exc |-> "none", ret |-> NoStamp(res.val)]
                   ELSE [exc |-> res.exc, ret |-> PyNone]

\* C13 as stated: two get_state() calls with no update() or reset() between
\* them return identical snapshots, timestamp included, in every reachable
\* state.
C13_RepeatedGetStateIdentical ==
  [][RepeatedGetState => (last'.exc = last.exc /\ last'.ret = last.ret)]_vars

\* C13 (amended): every get_state() returns (or raises) what the canonical
\* document alone determines, except for the timestamp, which is last_update
\* if an update() was called since construction or the last reset and the
\* time of the get_state() call otherwise.  So two get_state() calls with no
\* update() or reset() between them agree on every field but the timestamp,
\* and on the timestamp too once an update() was called.
C13_IdempotentUpToTimestamp ==
  [][(last'.op = "get_state" /\ last' # last) =>
       /\ [exc |-> last'.exc, ret |-> NoStamp(last'.ret)]
            = OfDocument(from_mqtt_data(state_data, PyNone, Timestamp(0)))
       /\ last'.exc = "none" =>
            last'.ret["timestamp"]
              = (IF last_update = PyNone THEN Timestamp(clock) ELSE last_update)
       /\ RepeatedGetState =>
            /\ last'.exc = last.exc
            /\ NoStamp(last'.ret) = NoStamp(last.ret)
            /\ last_update # PyNone => last'.ret = last.ret]_vars

\* C13 witness: get_state() was called twice in a row, the second time
\* later than the update whose values both calls report.
C13_Witness ==
  /\ last.op = "get_state" /\ last.prev.op = "get_state" /\ last.exc = "none"
  /\ last_update = Timestamp(0) /\ last.at = 1
  /\ last.ret["timestamp"] = Timestamp(0)
  /\ last.ret["gcode_state"] = sRUNNING

\* A snapshot was asked of an accumulator whose canonical document is empty.
FromEmpty == last.op \in {"get_state", "get_snapshot"} /\ state_data = InitStateData

\* The fields of the last result other than the timestamp.
ResultFields == DOMAIN last.ret \ {"timestamp"}

\* The fields that hold one of a fixed set of status words.
StatusFields == {"gcode_state", "chamber_light"}

\* C14 as stated: derived from an empty document, every numeric field is 0
\* or 0.0, every enumerated status field is "unknown", every other string
\* field is "", and every collection field is empty.
C14_DefaultsAllZero ==
  FromEmpty =>
    /\ last.exc = "none"
    /\ \A f \in ResultFields :
         CASE last.ret[f].t = "int" -> last.ret[f].n = 0
           [] last.ret[f].t = "float" -> last.ret[f].milli = 0
           [] last.ret[f].t = "str" ->
                last.ret[f] = (IF f \in StatusFields THEN sUnknown ELSE EmptyStr)
           [] last.ret[f].t = "seq" -> last.ret[f].q = <<>>
           [] last.ret[f].t = "map" -> last.ret[f].m = <<>>
           [] OTHER -> TRUE

\* C14 (amended): derived from an empty document, every numeric field is 0
\* or 0.0 except nozzle_diameter, which is 0.4; every string field is "",
\* gcode_state included, except the snapshot's chamber_light, which is
\* "unknown"; has_errors is false; every sequence and mapping field is
\* empty; ams and vt_tray are None.
C14_Defaults ==
  FromEmpty =>
    /\ last.exc = "none"
    /\ {"nozzle_diameter", "gcode_state", "lights_report"} \subseteq ResultFields
    /\ \A f \in ResultFields :
         CASE last.ret[f].t = "int" -> last.ret[f].n = 0
           [] last.ret[f].t = "float" ->
                last.ret[f].milli = (IF f = "nozzle_diameter" THEN 400 ELSE 0)
           [] last.ret[f].t = "str" ->
                last.ret[f] = (IF f = "chamber_light" THEN sUnknown ELSE EmptyStr)
           [] last.ret[f].t = "bool" -> last.ret[f].b = FALSE
           [] last.ret[f].t = "seq" -> last.ret[f].q = <<>>
           [] last.ret[f].t = "map" -> last.ret[f].m = <<>>
           [] last.ret[f].t = "null" -> f \in {"ams", "vt_tray"}

\* C14 witness: a snapshot taken right after a reset() that discarded
\* updates.
C14_Witness ==
  /\ last.op = "get_snapshot" /\ last.exc = "none" /\ state_data = InitStateData
  /\ last.prev.op = "reset" /\ last.prev.before > 0
  /\ last.ret["nozzle_diameter"] = PyFloat(400)
  /\ last.ret["chamber_light"] = sUnknown

\* The tray positions <<unit, tray>> of an AMS state's units, and those
\* whose tray has a material type.
Slots(units) ==
  UNION {{<<u, t>> : t \in 1..Len(units[u]["trays"])} : u \in 1..Len(units)}
LoadedSlots(units) ==
  {s \in Slots(units) : Truthy(units[s[1]]["trays"][s[2]]["tray_type"])}

\* Unit order, then tray order.
Before(a, b) == a[1] < b[1] \/ (a[1] = b[1] /\ a[2] < b[2])

\* The trays with a material type, in unit order then tray order.
LoadedView(units) ==
  [i \in 1..Cardinality(LoadedSlots(units)) |->
     LET s == CHOOSE s \in LoadedSlots(units) :
                Cardinality({r \in LoadedSlots(units) : Before(r, s)}) = i - 1
     IN units[s[1]]["trays"][s[2]]]

\* The unit list that the canonical document holds, and the number of trays
\* in it.
DocUnitsOf(sd) == Get(Get(sd["print"].m, "ams", EmptyDict).m, "ams", EmptyList).q
DocTrays(sd) ==
  UNION {{<<u, t>> : t \in 1..Len(Get(DocUnitsOf(sd)[u].m, "tray", EmptyList).q)}
         : u \in 1..Len(DocUnitsOf(sd))}

\* The AMS units that get_state() derives from the document.
DerivedUnits(sd) == AMSState_from_dict(sd["print"].m["ams"]).val["units"]

\* C15 (tray filter): loaded_trays and the snapshot's "filaments" list hold
\* exactly the trays whose tray_type is non-empty, in unit order then tray
\* order; the other trays are left out of these views only: total_trays
\* counts every tray, and every tray is still in the canonical document.
C15_TrayFilter ==
  /\ last.op = "loaded_trays" =>
       /\ last.ret = LoadedView(last.arg["ams"]["units"])
       /\ Cardinality(DocTrays(state_data)) = Cardinality(Slots(last.arg["ams"]["units"]))
  /\ last.op = "total_trays" =>
       /\ last.ret = PyInt(Cardinality(Slots(last.arg["ams"]["units"])))
       /\ last.ret = PyInt(Cardinality(DocTrays(state_data)))
  /\ (last.op = "get_snapshot" /\ last.exc = "none" /\ "ams" \in DOMAIN state_data["print"].m) =>
       /\ "filaments" \in DOMAIN last.ret
       /\ last.ret["filaments"] = Filaments(LoadedView(DerivedUnits(state_data)))
       /\ last.ret["ams_unit_count"] = PyInt(Len(DocUnitsOf(state_data)))

\* C15 witness: of the five trays of two units, the three with a material
\* type are in the view, in order.
C15_Witness ==
  /\ last.op = "loaded_trays"
  /\ Cardinality(DocTrays(state_data)) = 5
  /\ Len(last.ret) = 3
  /\ last.ret[1]["tray_type"] = sPLA
  /\ last.ret[2]["tray_type"] = PyStr(<<"P", "E", "T", "G">>)
  /\ last.ret[3]["tray_type"] = sPLA

\* C16 as stated: the canonical document changes only through update() and
\* reset(), so whatever a caller does with the PrinterState objects it was
\* returned, the gcode_state that get_state() reports is the one carried by
\* the most recent update that held it (or the default).
C16_OnlyUpdatesReachDocument ==
  (last.op = "get_state" /\ last.exc = "none") =>
    last.ret["gcode_state"] = Get(last_seen, "gcode_state", EmptyStr)

\* ---- C17
\* The document after the updates that have completed, rebuilt from the
\* values they carried.
WholeDocument ==
  IF <<"print">> \in DOMAIN latest THEN "print" :> Rebuild(latest, <<"print">>)
  ELSE InitStateData

\* What get_state() may return if it only ever sees whole updates: the
\* derivation of the document before the update in flight, or after it.
WholeViews ==
  {OfDocument(from_mqtt_data(WholeDocument, PyNone, Timestamp(0)))}
  \cup IF inflight.pc = "merge"
       THEN {OfDocument(from_mqtt_data(MergeStep(WholeDocument, inflight.data).sd,
                                       PyNone, Timestamp(0)))}
       ELSE {}

\* C17 (atomic access to the document): with messages merged on the
\* transport thread while the owner calls get_state(), every PrinterState
\* returned is the derivation of the document after a whole number of
\* updates; a partially merged update is never observed.
C17_WholeUpdatesObserved ==
  [][(last'.op = "get_state" /\ last' # last)
     => [exc |-> last'.exc, ret |-> NoStamp(last'.ret)] \in WholeViews]_vars

\* ---- C18
\* A session has just started: the printer is connected and no message of
\* this session has been merged or is being merged.
SessionStart == connected /\ session_msgs = 0 /\ inflight.pc = "idle"

\* C18 (session restart discards state): at the start of every session,
\* after reconnect() or after disconnect() followed by connect(), the
\* document is empty, and a PrinterState derived then holds no value of an
\* earlier session.
C18_RestartDiscards ==
  SessionStart =>
    /\ state_data = InitStateData
    /\ last.op = "get_state" =>
         [exc |-> last.exc, ret |-> NoStamp(last.ret)]
           = OfDocument(from_mqtt_data(InitStateData, PyNone, Timestamp(0)))

\* ---- C19
ConnectCall == last.op = "connect"

\* The call had a token to make its first attempt with: the one held, or
\* one from a login that needs both the username and the password.
HadToken ==
  \/ last.arg.token # "none"
  \/ creds.username /\ creds.password /\ last.arg.fresh # <<>> /\ last.arg.fresh[1]

\* The logins made after the first attempt, in order.
LoginsAfterFirst ==
  IF last.arg.token # "none" THEN last.arg.fresh ELSE Tail0(last.arg.fresh)

SecondsText(c) == IntChars(Epoch + (c * TickMillis) \div 1000)

\* C20 (signed requests): every request sent carries appId, timeStamp and
\* sign; appId is the client's identifier, timeStamp is the decimal text of
\* the whole seconds of the clock at the request, and sign is the SHA-512
\* hex digest of the bytes of appId + appSecret + that same text.
C20_SignedRequests ==
  sent # PyNone =>
    /\ {"appId", "timeStamp", "sign"} \subseteq DOMAIN sent.headers
    /\ sent.headers.appId = api.app_id
    /\ sent.headers.timeStamp = PyStr(SecondsText(sent.at))
    /\ sent.headers.sign
         = Sha512Hex(Encode(api.app_id.s \o api.app_secret.s \o sent.headers.timeStamp.s))

\* A request sent in a second that did not begin when it was made.
C20_Witness ==
  /\ sent # PyNone
  /\ last.op = "get_one_day_power" /\ last.exc = "none"
  /\ sent.at = 1
  /\ sent.headers.timeStamp = PyStr(IntChars(Epoch + 1))

\* ---- C21
RequestMethods ==
  {"get_last_power_data", "get_system_summary", "get_system_list", "get_one_day_power",
   "get_one_day_energy", "get_charge_config"}

\* C21 (no retry): a get_* call that reaches the transport issues exactly
\* one request, the one held in `sent`, made at the time of the call; it
\* never raises; on a transport failure it returns {"error": <message>},
\* and on a reply it returns the body of that reply, not an earlier one.
C21_OneRequestNoRetry ==
  (last.op \in RequestMethods /\ last.answer # PyNone) =>
    /\ last.requests = 1
    /\ sent.at = last.at
    /\ last.exc = "none"
    /\ last.answer.kind = "failed" => last.ret = PyDict("error" :> PyStr(last.answer.msg))
    /\ last.answer.kind = "reply" => last.ret = last.answer.json

\* A request that timed out, after a request that was answered.
C21_Witness ==
  /\ last.op = "get_system_list"
  /\ last.prev.op = "get_last_power_data"
  /\ last.answer = Failed(sTimeout.s)
  /\ last.ret = PyDict("error" :> sTimeout)

\* ---- C22
FetchMethods == {"fetch_power_data", "fetch_one_day_energy", "fetch_one_day_power"}

\* C22 (fetch results): a fetch_* call that got an answer returns the
\* formatted data, a dict with no "error" key, when the reply has code 200;
\* otherwise it returns a dict with exactly the keys "error" and "code",
\* which for a transport failure carries the message of that failure.
C22_DataOrError ==
  (last.op \in FetchMethods /\ last.answer # PyNone) =>
    /\ last.exc = "none"
    /\ IF last.answer.kind = "reply" /\ IsCode200(last.answer.json)
       THEN "error" \notin DOMAIN last.ret.m
       ELSE DOMAIN last.ret.m = {"error", "code"}
    /\ last.answer.kind = "failed" => last.ret.m["error"] = PyStr(last.answer.msg)

\* ---- C23
\* C23 (print_one_day_* requests): the request that print_one_day_energy or
\* print_one_day_power sends has the query_date argument as queryDate and
\* the resolved serial number as sysSn, as the request of the fetch_one_day_*
\* method with the same arguments has.
C23_PrintSendsSameRequest ==
  (last.op \in {"print_one_day_energy", "print_one_day_power"} /\ last.answer # PyNone) =>
    /\ sent.params["queryDate"] = last.arg.query_date
    /\ sent.params["sysSn"] = parse_system_sn(last.arg.system_sn).val

\* ---- C24
ErrorKeys(rs) == {SampleSteps[i].key : i \in {j \in 1..Len(SampleSteps) : ~rs[j].ok}}

\* C24 (get_one_sample isolates failures): a get_one_sample() that got a
\* connected sampler makes the four device calls in order and does not
\* raise, whichever of them raised; a call that raised leaves its default
\* in the result (power_w None, or an empty dict), and the result has an
\* "errors" key exactly when some call raised, with exactly the raising
\* calls as its keys.  It raises only when it had to connect and could not,
\* and then no device call was made.
C24_FailuresIsolated ==
  last.op = "get_one_sample" =>
    IF last.exc = "none"
    THEN /\ last.calls = [i \in 1..Len(SampleSteps) |-> SampleSteps[i].call]
         /\ tapo.connected
         /\ ~last.arg[1].ok => last.ret.m["power_w"] = PyNone
         /\ \A i \in 2..Len(SampleSteps) :
              ~last.arg[i].ok => last.ret.m[SampleSteps[i].key] = EmptyDict
         /\ "errors" \in DOMAIN last.ret.m <=> ErrorKeys(last.arg) # {}
         /\ "errors" \in DOMAIN last.ret.m =>
              DOMAIN last.ret.m["errors"].m = ErrorKeys(last.arg)
    ELSE ~last.was.connected /\ last.calls = <<>>

C24_Witness ==
  /\ last.op = "get_one_sample"
  /\ last.exc = "none"
  /\ ~last.arg[1].ok /\ last.arg[2].ok /\ ~last.arg[3].ok /\ ~last.arg[4].ok
  /\ DOMAIN last.ret.m["errors"].m = {"current_power", "energy_usage", "device_info"}
  /\ last.ret.m["device_usage"] # EmptyDict

\* ---- C28
\* C28 (sampler lifecycle): a connected sampler holds a client and a device;
\* connect() on a connected sampler makes no client, looks up no device and
\* changes nothing; after close() the sampler holds no client and no device
\* and is not connected, also when closing the client raised, and close()
\* does not raise then.
C28_Lifecycle ==
  /\ tapo.connected => tapo.client # PyNone /\ tapo.device # PyNone
  /\ (last.op = "TapoSampler_connect" /\ last.was.connected) =>
       last.made = 0 /\ last.lookups = 0 /\ tapo = last.was /\ last.exc = "none"
  /\ last.op = "TapoSampler_close" => tapo = Cleared /\ last.exc = "none"

C28_Witness ==
  /\ last.op = "TapoSampler_close"
  /\ last.arg = "Exception"
  /\ last.was.connected
  /\ last.prev.op = "TapoSampler_connect"
  /\ tapo = Cleared

\* ---- C29
\* C29 (get_one_sample_sync releases the connection): after
\* get_one_sample_sync(), whether it returned a sample or raised because
\* connecting or sampling failed, the sampler holds no client and no device
\* and is not connected; inside a running event loop it raises RuntimeError
\* and makes no client.
C29_SyncReleases ==
  last.op = "get_one_sample_sync" =>
    IF last.path = "loop"
    THEN last.exc = "RuntimeError" /\ last.made = 0 /\ tapo = last.was
    ELSE tapo = Cleared

\* ---- C30
PowerKeys == {"current_power", "power", "value"}
IsNumber(v) == v.t \in {"int", "float"}

\* C30 (power_w): when the current-power call returned, power_w is None
\* only if the response has none of the keys current_power, power, value;
\* a response that has one of them with a numeric value, 0 included, gives
\* that value as a float.
C30_PowerReported ==
  (last.op = "get_one_sample" /\ last.exc = "none" /\ last.arg[1].ok) =>
    LET curd == obj_to_dict(last.arg[1].val).m
    IN /\ last.ret.m["power_w"] = PyNone => PowerKeys \cap DOMAIN curd = {}
       /\ \A k \in PowerKeys \cap DOMAIN curd :
            (IsNumber(curd[k]) /\ PowerKeys \cap DOMAIN curd = {k}) =>
              last.ret.m["power_w"] = PyFloatConv(curd[k]).val

\* ---- C25
\* C25 (one callback per message): with a callback installed, the handling
\* of a non-empty message ends with update() having returned and the
\* callback having been called exactly once, with the state that update()
\* returned for that message.
C25_OneCallbackPerMessage ==
  (last.op = "update" /\ on_update) =>
    /\ last.exc = "none"
    /\ last.called = <<last.ret>>

\* ---- C26
\* C26 (snapshot stability): the _raw_data of a PrinterState that a caller
\* kept has, after whatever update() and reset() calls came later, the
\* contents it had when the PrinterState was returned.
C26_SnapshotStable == held # PyNone => held.raw = held.was

\* ---- C27
\* C27 (update documents are not mutated): an update document that a caller
\* kept has, after whatever update() calls came later, the contents it had
\* when it was passed to update().
C27_DocumentUntouched == given # PyNone => given.now = given.doc
====
